---- MODULE Spec2Model ----
(***************************************************************************)
(* AccountsApp: the storage state (accounts, addresses, contacts, projects,*)
(* lookup tables) and the request handlers that change it: the account    *)
(* import (row parsing, create-vs-update by Code, per-row commit/rollback) *)
(* and the direct CRUD endpoints.                                          *)
(*                                                                         *)
(* Conventions.  A Python value that may be None is a sequence of length   *)
(* 0 or 1: None is << >> and the value v is <<v>>.  A Python str is the    *)
(* sequence of its characters, so strip() and split() are computed, not    *)
(* assumed.  A uuid4 primary key is the position of the record in its      *)
(* table (accounts, projects, lookups: never physically removed) or a      *)
(* fresh number taken from next_contact (contacts: the import removes      *)
(* rows physically).                                                       *)
(***************************************************************************)
EXTENDS Integers, Sequences, FiniteSets, TLC

VARIABLES db, imp, response, steps, call, sessions

vars == <<db, imp, response, steps, call, sessions>>

-----------------------------------------------------------------------------
(* Bounds of the model *)

\* successful write requests / committed import rows in one behaviour
MaxSteps == 4
\* data rows of one uploaded file
MaxRows == 2

\* longest text given to parse_contacts
MaxLen == 6

\* most defects put into one row of an upload
MaxDefects == 2

\* requests served at the same time, each in a database session of its own
MaxSessions == 2

-----------------------------------------------------------------------------
(* Python values *)

None == << >>
Some(x) == <<x>>
Val(o) == o[1]

\* truthiness of an optional str: None and "" are falsy
Falsy(o) == o = None \/ Val(o) = << >>

USER == "00000000-0000-0000-0000-000000000001"

RECURSIVE LStrip(_)
LStrip(s) == IF s # << >> /\ Head(s) = " " THEN LStrip(Tail(s)) ELSE s

RECURSIVE RStrip(_)
RStrip(s) ==
    IF s # << >> /\ s[Len(s)] = " " THEN RStrip(SubSeq(s, 1, Len(s) - 1)) ELSE s

\* str.strip()
Strip(s) == RStrip(LStrip(s))

\* str.split(sep): the pieces between the separators, empty pieces included
RECURSIVE SplitFrom(_, _, _)
SplitFrom(s, sep, cur) ==
    IF s = << >> THEN <<cur>>
    ELSE IF Head(s) = sep THEN <<cur>> \o SplitFrom(Tail(s), sep, << >>)
    ELSE SplitFrom(Tail(s), sep, Append(cur, Head(s)))

Split(s, sep) == SplitFrom(s, sep, << >>)

DigitVal ==
    [c \in {"0", "1", "2", "3", "4", "5", "6", "7", "8", "9"} |->
        CASE c = "0" -> 0 [] c = "1" -> 1 [] c = "2" -> 2 [] c = "3" -> 3
          [] c = "4" -> 4 [] c = "5" -> 5 [] c = "6" -> 6 [] c = "7" -> 7
          [] c = "8" -> 8 [] c = "9" -> 9]

Unsigned(s) == IF s # << >> /\ Head(s) \in {"+", "-"} THEN Tail(s) ELSE s

\* int(s) succeeds: optional sign followed by decimal digits, single
\* underscores allowed between two digits
IsIntLiteral(s) ==
    /\ Unsigned(s) # << >>
    /\ \A i \in 1..Len(Unsigned(s)) :
          \/ Unsigned(s)[i] \in DOMAIN DigitVal
          \/ /\ Unsigned(s)[i] = "_"
             /\ 1 < i
             /\ i < Len(Unsigned(s))
             /\ Unsigned(s)[i - 1] \in DOMAIN DigitVal
             /\ Unsigned(s)[i + 1] \in DOMAIN DigitVal

RECURSIVE DigitsValue(_, _)
DigitsValue(s, acc) ==
    IF s = << >> THEN acc
    ELSE IF Head(s) = "_" THEN DigitsValue(Tail(s), acc)
    ELSE DigitsValue(Tail(s), (acc * 10) + DigitVal[Head(s)])

\* int(s) for a literal s
IntOf(s) ==
    IF s # << >> /\ Head(s) = "-" THEN 0 - DigitsValue(Unsigned(s), 0)
    ELSE DigitsValue(Unsigned(s), 0)

Min(S) == CHOOSE x \in S : \A y \in S : x <= y

-----------------------------------------------------------------------------
(* Storage *)

LookupOrder == <<"Department", "Unit", "Vertical", "Location", "Status">>

Categories == {LookupOrder[i] : i \in DOMAIN LookupOrder}

\* the Account column holding the reference to a lookup category
RefField ==
    [c \in Categories |->
        CASE c = "Department" -> "department_id"
          [] c = "Unit" -> "unit_id"
          [] c = "Vertical" -> "vertical_id"
          [] c = "Location" -> "location_id"
          [] c = "Status" -> "status_id"]

EmptyDb ==
    [accounts |-> << >>, addresses |-> << >>, contacts |-> << >>,
     projects |-> << >>, lookups |-> [c \in Categories |-> << >>],
     next_contact |-> 1]

\* Account(...): a new row of table accounts; is_deleted defaults to False
Account(name, code, probability, account_partner, delivery_partner, refs) ==
    [name |-> name, code |-> code, probability |-> probability,
     account_partner |-> account_partner, delivery_partner |-> delivery_partner,
     department_id |-> refs["Department"], unit_id |-> refs["Unit"],
     vertical_id |-> refs["Vertical"], location_id |-> refs["Location"],
     status_id |-> refs["Status"],
     is_deleted |-> FALSE, deleted_at |-> None, deleted_by |-> None]

\* Address(...): a new row of table addresses, keyed by account_id
Address(account_id, a) ==
    [account_id |-> account_id, addressLine1 |-> a.addressLine1,
     addressLine2 |-> a.addressLine2, city |-> a.city, state |-> a.state,
     countryCode |-> a.countryCode, zip |-> a.zip,
     is_deleted |-> FALSE, deleted_at |-> None, deleted_by |-> None]

\* Contact(...): a new row of table contacts
Contact(id, account_id, c) ==
    [id |-> id, account_id |-> account_id, name |-> c.name, email |-> c.email,
     phone |-> c.phone,
     is_deleted |-> FALSE, deleted_at |-> None, deleted_by |-> None]

\* Project(...): a new row of table projects
Project(account_id, project_name, project_code) ==
    [account_id |-> account_id, project_name |-> project_name,
     project_code |-> project_code,
     is_deleted |-> FALSE, deleted_at |-> None, deleted_by |-> None]

\* a new row of a lookup table
LookupRow(name) ==
    [name |-> name, is_deleted |-> FALSE, deleted_at |-> None, deleted_by |-> None]

\* the soft-delete columns set by every soft delete
MarkDeleted(r) ==
    [r EXCEPT !.is_deleted = TRUE, !.deleted_at = Some("now"), !.deleted_by = Some(USER)]

\* unique=True on accounts.code: no other stored row, deleted or not, has the code
code_unique_free(m, code, self) == TRUE

code_unique(accounts, code, self) ==
    \A i \in DOMAIN accounts : i = self \/ accounts[i].code # code

\* db.query(Account).filter(Account.code == code, Account.is_deleted == False).first()
\* as the account's id, 0 when there is none
active_account_blind(d, code) == 0

active_account_by_code(d, code) ==
    LET hits == {i \in DOMAIN d.accounts :
                    d.accounts[i].code = code /\ ~d.accounts[i].is_deleted}
    IN IF hits = {} THEN 0 ELSE Min(hits)

\* db.query(Account).filter(Account.id == id, Account.is_deleted == False).first()
active_account(d, id) == id \in DOMAIN d.accounts /\ ~d.accounts[id].is_deleted

\* db.query(model).filter(model.id == value, model.is_deleted == False).first()
active_lookup(d, model, id) ==
    id \in DOMAIN d.lookups[model] /\ ~d.lookups[model][id].is_deleted

-----------------------------------------------------------------------------
(* Import helpers *)

Columns ==
    {"Name", "Code", "Probability", "Account Partner", "Delivery Partner",
     "Department", "Unit", "Vertical", "Location", "Status",
     "Address Line1", "Address Line2", "City", "State", "Zip", "Country",
     "Contacts (Name/Email/Phone)"}

\* row.get(col)
RowGet(row, col) == IF col \in DOMAIN row THEN row[col] ELSE None

Error(kind, label, arg) == [kind |-> kind, label |-> label, arg |-> arg]

NoError == Error("", "", None)

null_if_empty(value) ==
    IF value = None THEN None
    ELSE IF Strip(Val(value)) # << >> THEN Some(Strip(Val(value))) ELSE None

\* resolve_lookup_by_name matching soft-deleted entries too
resolve_lookup_by_name_any(d, model, name, label) ==
    IF Falsy(name) THEN [ok |-> TRUE, id |-> None, error |-> NoError]
    ELSE LET hits == {i \in DOMAIN d.lookups[model] :
                        d.lookups[model][i].name = Some(Strip(Val(name)))}
         IN IF hits = {}
            THEN [ok |-> FALSE, id |-> None,
                  error |-> Error("does not exist", label, name)]
            ELSE [ok |-> TRUE, id |-> Some(Min(hits)), error |-> NoError]

resolve_lookup_by_name(d, model, name, label) ==
    IF Falsy(name) THEN [ok |-> TRUE, id |-> None, error |-> NoError]
    ELSE LET hits == {i \in DOMAIN d.lookups[model] :
                        /\ d.lookups[model][i].name = Some(Strip(Val(name)))
                        /\ ~d.lookups[model][i].is_deleted}
         IN IF hits = {}
            THEN [ok |-> FALSE, id |-> None,
                  error |-> Error("does not exist", label, name)]
            ELSE [ok |-> TRUE, id |-> Some(Min(hits)), error |-> NoError]

\* one entry "name/email[/phone]" of the contacts cell, already stripped
ContactOfEntry(entry) ==
    LET parts == [i \in DOMAIN Split(entry, "/") |-> Strip(Split(entry, "/")[i])]
    IN [ok |-> Len(parts) >= 2,
        contact |-> IF Len(parts) >= 2
                    THEN [name |-> Some(parts[1]), email |-> Some(parts[2]),
                          phone |-> IF Len(parts) > 2 THEN Some(parts[3]) ELSE None]
                    ELSE [name |-> None, email |-> None, phone |-> None],
        error |-> Error("Invalid contact format", "Contacts", Some(entry))]

\* parse_contacts keeping the contacts read before the entry that fails
parse_contacts_partial(raw) ==
    IF raw = None \/ Val(raw) = << >> THEN [ok |-> TRUE, contacts |-> << >>, error |-> NoError]
    ELSE LET pieces == Split(Val(raw), ";")
             stripped == [i \in DOMAIN pieces |-> Strip(pieces[i])]
             rows == SelectSeq(stripped, LAMBDA x : x # << >>)
             parsed == [i \in DOMAIN rows |-> ContactOfEntry(rows[i])]
             bad == {i \in DOMAIN parsed : ~parsed[i].ok}
         IN IF bad # {}
            THEN [ok |-> FALSE,
                  contacts |-> [i \in 1..(Min(bad) - 1) |-> parsed[i].contact],
                  error |-> parsed[Min(bad)].error]
            ELSE [ok |-> TRUE, contacts |-> [i \in DOMAIN parsed |-> parsed[i].contact],
                  error |-> NoError]

parse_contacts(raw) ==
    IF raw = None \/ Val(raw) = << >> THEN [ok |-> TRUE, contacts |-> << >>, error |-> NoError]
    ELSE LET pieces == Split(Val(raw), ";")
             stripped == [i \in DOMAIN pieces |-> Strip(pieces[i])]
             rows == SelectSeq(stripped, LAMBDA x : x # << >>)
             parsed == [i \in DOMAIN rows |-> ContactOfEntry(rows[i])]
             bad == {i \in DOMAIN parsed : ~parsed[i].ok}
         IN IF bad # {}
            THEN [ok |-> FALSE, contacts |-> << >>, error |-> parsed[Min(bad)].error]
            ELSE [ok |-> TRUE, contacts |-> [i \in DOMAIN parsed |-> parsed[i].contact],
                  error |-> NoError]

-----------------------------------------------------------------------------
(* process_import_row *)

Raise(d, e) == [ok |-> FALSE, result |-> "failed", error |-> e, work |-> d]

Return(d, result) == [ok |-> TRUE, result |-> result, error |-> NoError, work |-> d]

\* the checks and conversions made on the row before anything is written, in
\* the order of the code; the error raised is that of the first failing one
\* row_values, mutated: the address cells are not required on the update path
row_values_update_unchecked(d, row) ==
    LET name == null_if_empty(RowGet(row, "Name"))
        code == null_if_empty(RowGet(row, "Code"))
        probability == null_if_empty(RowGet(row, "Probability"))
        lk == [i \in DOMAIN LookupOrder |->
                 resolve_lookup_by_name(d, LookupOrder[i],
                     null_if_empty(RowGet(row, LookupOrder[i])), LookupOrder[i])]
        badlk == {i \in DOMAIN lk : ~lk[i].ok}
        line1 == null_if_empty(RowGet(row, "Address Line1"))
        city == null_if_empty(RowGet(row, "City"))
        country == null_if_empty(RowGet(row, "Country"))
        parsed == parse_contacts(RowGet(row, "Contacts (Name/Email/Phone)"))
        fail(e) == [ok |-> FALSE, error |-> e, v |-> << >>]
    IN IF Falsy(name) THEN fail(Error("is required", "Name", None))
       ELSE IF Falsy(code) THEN fail(Error("is required", "Code", None))
       ELSE IF ~Falsy(probability) /\ ~IsIntLiteral(Val(probability))
            THEN fail(Error("invalid literal for int()", "Probability", probability))
       ELSE IF badlk # {} THEN fail(lk[Min(badlk)].error)
       ELSE IF active_account_by_code(d, code) = 0 /\ Falsy(line1)
            THEN fail(Error("is required", "Address Line1", None))
       ELSE IF active_account_by_code(d, code) = 0 /\ Falsy(city)
            THEN fail(Error("is required", "City", None))
       ELSE IF active_account_by_code(d, code) = 0 /\ Falsy(country)
            THEN fail(Error("is required", "Country", None))
       ELSE IF ~parsed.ok THEN fail(parsed.error)
       ELSE [ok |-> TRUE, error |-> NoError,
             v |-> [account |-> active_account_by_code(d, code),
                    name |-> name, code |-> code,
                    probability |-> IF Falsy(probability) THEN None
                                    ELSE Some(IntOf(Val(probability))),
                    account_partner |-> null_if_empty(RowGet(row, "Account Partner")),
                    delivery_partner |-> null_if_empty(RowGet(row, "Delivery Partner")),
                    refs |-> [c \in Categories |->
                                lk[CHOOSE i \in DOMAIN LookupOrder : LookupOrder[i] = c].id],
                    address |-> [addressLine1 |-> line1,
                                 addressLine2 |-> null_if_empty(RowGet(row, "Address Line2")),
                                 city |-> city,
                                 state |-> null_if_empty(RowGet(row, "State")),
                                 countryCode |-> country,
                                 zip |-> null_if_empty(RowGet(row, "Zip"))],
                    contacts |-> parsed.contacts]]

\* row_values, mutated: a blank Probability is stored as 0
row_values_zero(d, row) ==
    LET name == null_if_empty(RowGet(row, "Name"))
        code == null_if_empty(RowGet(row, "Code"))
        probability == null_if_empty(RowGet(row, "Probability"))
        lk == [i \in DOMAIN LookupOrder |->
                 resolve_lookup_by_name(d, LookupOrder[i],
                     null_if_empty(RowGet(row, LookupOrder[i])), LookupOrder[i])]
        badlk == {i \in DOMAIN lk : ~lk[i].ok}
        line1 == null_if_empty(RowGet(row, "Address Line1"))
        city == null_if_empty(RowGet(row, "City"))
        country == null_if_empty(RowGet(row, "Country"))
        parsed == parse_contacts(RowGet(row, "Contacts (Name/Email/Phone)"))
        fail(e) == [ok |-> FALSE, error |-> e, v |-> << >>]
    IN IF Falsy(name) THEN fail(Error("is required", "Name", None))
       ELSE IF Falsy(code) THEN fail(Error("is required", "Code", None))
       ELSE IF ~Falsy(probability) /\ ~IsIntLiteral(Val(probability))
            THEN fail(Error("invalid literal for int()", "Probability", probability))
       ELSE IF badlk # {} THEN fail(lk[Min(badlk)].error)
       ELSE IF Falsy(line1) THEN fail(Error("is required", "Address Line1", None))
       ELSE IF Falsy(city) THEN fail(Error("is required", "City", None))
       ELSE IF Falsy(country) THEN fail(Error("is required", "Country", None))
       ELSE IF ~parsed.ok THEN fail(parsed.error)
       ELSE [ok |-> TRUE, error |-> NoError,
             v |-> [account |-> active_account_by_code(d, code),
                    name |-> name, code |-> code,
                    probability |-> IF Falsy(probability) THEN Some(0)
                                    ELSE Some(IntOf(Val(probability))),
                    account_partner |-> null_if_empty(RowGet(row, "Account Partner")),
                    delivery_partner |-> null_if_empty(RowGet(row, "Delivery Partner")),
                    refs |-> [c \in Categories |->
                                lk[CHOOSE i \in DOMAIN LookupOrder : LookupOrder[i] = c].id],
                    address |-> [addressLine1 |-> line1,
                                 addressLine2 |-> null_if_empty(RowGet(row, "Address Line2")),
                                 city |-> city,
                                 state |-> null_if_empty(RowGet(row, "State")),
                                 countryCode |-> country,
                                 zip |-> null_if_empty(RowGet(row, "Zip"))],
                    contacts |-> parsed.contacts]]

\* row_values, mutated: the address cells are checked before the lookup names
row_values_address_first(d, row) ==
    LET name == null_if_empty(RowGet(row, "Name"))
        code == null_if_empty(RowGet(row, "Code"))
        probability == null_if_empty(RowGet(row, "Probability"))
        lk == [i \in DOMAIN LookupOrder |->
                 resolve_lookup_by_name(d, LookupOrder[i],
                     null_if_empty(RowGet(row, LookupOrder[i])), LookupOrder[i])]
        badlk == {i \in DOMAIN lk : ~lk[i].ok}
        line1 == null_if_empty(RowGet(row, "Address Line1"))
        city == null_if_empty(RowGet(row, "City"))
        country == null_if_empty(RowGet(row, "Country"))
        parsed == parse_contacts(RowGet(row, "Contacts (Name/Email/Phone)"))
        fail(e) == [ok |-> FALSE, error |-> e, v |-> << >>]
    IN IF Falsy(name) THEN fail(Error("is required", "Name", None))
       ELSE IF Falsy(code) THEN fail(Error("is required", "Code", None))
       ELSE IF ~Falsy(probability) /\ ~IsIntLiteral(Val(probability))
            THEN fail(Error("invalid literal for int()", "Probability", probability))
       ELSE IF Falsy(line1) THEN fail(Error("is required", "Address Line1", None))
       ELSE IF Falsy(city) THEN fail(Error("is required", "City", None))
       ELSE IF Falsy(country) THEN fail(Error("is required", "Country", None))
       ELSE IF badlk # {} THEN fail(lk[Min(badlk)].error)
       ELSE IF ~parsed.ok THEN fail(parsed.error)
       ELSE [ok |-> TRUE, error |-> NoError,
             v |-> [account |-> active_account_by_code(d, code),
                    name |-> name, code |-> code,
                    probability |-> IF Falsy(probability) THEN None
                                    ELSE Some(IntOf(Val(probability))),
                    account_partner |-> null_if_empty(RowGet(row, "Account Partner")),
                    delivery_partner |-> null_if_empty(RowGet(row, "Delivery Partner")),
                    refs |-> [c \in Categories |->
                                lk[CHOOSE i \in DOMAIN LookupOrder : LookupOrder[i] = c].id],
                    address |-> [addressLine1 |-> line1,
                                 addressLine2 |-> null_if_empty(RowGet(row, "Address Line2")),
                                 city |-> city,
                                 state |-> null_if_empty(RowGet(row, "State")),
                                 countryCode |-> country,
                                 zip |-> null_if_empty(RowGet(row, "Zip"))],
                    contacts |-> parsed.contacts]]

row_values(d, row) ==
    LET name == null_if_empty(RowGet(row, "Name"))
        code == null_if_empty(RowGet(row, "Code"))
        probability == null_if_empty(RowGet(row, "Probability"))
        lk == [i \in DOMAIN LookupOrder |->
                 resolve_lookup_by_name(d, LookupOrder[i],
                     null_if_empty(RowGet(row, LookupOrder[i])), LookupOrder[i])]
        badlk == {i \in DOMAIN lk : ~lk[i].ok}
        line1 == null_if_empty(RowGet(row, "Address Line1"))
        city == null_if_empty(RowGet(row, "City"))
        country == null_if_empty(RowGet(row, "Country"))
        parsed == parse_contacts(RowGet(row, "Contacts (Name/Email/Phone)"))
        fail(e) == [ok |-> FALSE, error |-> e, v |-> << >>]
    IN IF Falsy(name) THEN fail(Error("is required", "Name", None))
       ELSE IF Falsy(code) THEN fail(Error("is required", "Code", None))
       ELSE IF ~Falsy(probability) /\ ~IsIntLiteral(Val(probability))
            THEN fail(Error("invalid literal for int()", "Probability", probability))
       ELSE IF badlk # {} THEN fail(lk[Min(badlk)].error)
       ELSE IF Falsy(line1) THEN fail(Error("is required", "Address Line1", None))
       ELSE IF Falsy(city) THEN fail(Error("is required", "City", None))
       ELSE IF Falsy(country) THEN fail(Error("is required", "Country", None))
       ELSE IF ~parsed.ok THEN fail(parsed.error)
       ELSE [ok |-> TRUE, error |-> NoError,
             v |-> [account |-> active_account_by_code(d, code),
                    name |-> name, code |-> code,
                    probability |-> IF Falsy(probability) THEN None
                                    ELSE Some(IntOf(Val(probability))),
                    account_partner |-> null_if_empty(RowGet(row, "Account Partner")),
                    delivery_partner |-> null_if_empty(RowGet(row, "Delivery Partner")),
                    refs |-> [c \in Categories |->
                                lk[CHOOSE i \in DOMAIN LookupOrder : LookupOrder[i] = c].id],
                    address |-> [addressLine1 |-> line1,
                                 addressLine2 |-> null_if_empty(RowGet(row, "Address Line2")),
                                 city |-> city,
                                 state |-> null_if_empty(RowGet(row, "State")),
                                 countryCode |-> country,
                                 zip |-> null_if_empty(RowGet(row, "Zip"))],
                    contacts |-> parsed.contacts]]

\* the Contact rows added for the parsed contacts of a row
new_contacts(d, account_id, contacts) ==
    [i \in DOMAIN contacts |-> Contact(d.next_contact + i - 1, account_id, contacts[i])]

\* UPDATE EXISTING ACCOUNT, mutated: a blank cell keeps the stored value
write_update_patch(d, v) ==
    LET id == v.account
        keep(new, old) == IF new = None THEN old ELSE new
        old == d.accounts[id]
        acc == [old EXCEPT
                  !.name = v.name,
                  !.probability = keep(v.probability, old.probability),
                  !.account_partner = keep(v.account_partner, old.account_partner),
                  !.delivery_partner = keep(v.delivery_partner, old.delivery_partner),
                  !.department_id = keep(v.refs["Department"], old.department_id),
                  !.unit_id = keep(v.refs["Unit"], old.unit_id),
                  !.vertical_id = keep(v.refs["Vertical"], old.vertical_id),
                  !.location_id = keep(v.refs["Location"], old.location_id),
                  !.status_id = keep(v.refs["Status"], old.status_id)]
    IN [d EXCEPT
          !.accounts = [d.accounts EXCEPT ![id] = acc],
          !.addresses = [i \in DOMAIN d.addresses |->
                           IF d.addresses[i].account_id = id
                           THEN [d.addresses[i] EXCEPT
                                   !.addressLine1 = v.address.addressLine1,
                                   !.addressLine2 = keep(v.address.addressLine2, @),
                                   !.city = v.address.city,
                                   !.state = keep(v.address.state, @),
                                   !.countryCode = v.address.countryCode,
                                   !.zip = keep(v.address.zip, @)]
                           ELSE d.addresses[i]],
          !.contacts = SelectSeq(d.contacts, LAMBDA c : c.account_id # id)
                          \o new_contacts(d, id, v.contacts),
          !.next_contact = d.next_contact + Len(v.contacts)]

\* UPDATE EXISTING ACCOUNT, mutated: the stored contacts are not removed
write_update_append(d, v) ==
    LET id == v.account
    IN [d EXCEPT
          !.accounts = [d.accounts EXCEPT ![id] =
                          [@ EXCEPT !.name = v.name, !.probability = v.probability,
                                    !.account_partner = v.account_partner,
                                    !.delivery_partner = v.delivery_partner,
                                    !.department_id = v.refs["Department"],
                                    !.unit_id = v.refs["Unit"],
                                    !.vertical_id = v.refs["Vertical"],
                                    !.location_id = v.refs["Location"],
                                    !.status_id = v.refs["Status"]]],
          !.addresses = [i \in DOMAIN d.addresses |->
                           IF d.addresses[i].account_id = id
                           THEN [d.addresses[i] EXCEPT
                                   !.addressLine1 = v.address.addressLine1,
                                   !.addressLine2 = v.address.addressLine2,
                                   !.city = v.address.city,
                                   !.state = v.address.state,
                                   !.countryCode = v.address.countryCode,
                                   !.zip = v.address.zip]
                           ELSE d.addresses[i]],
          !.contacts = d.contacts \o new_contacts(d, id, v.contacts),
          !.next_contact = d.next_contact + Len(v.contacts)]

\* UPDATE EXISTING ACCOUNT: every mutable column is assigned, the address is
\* updated in place (created when missing), the contacts of the account are
\* removed by a bulk DELETE and the parsed contacts inserted
write_update(d, v) ==
    LET id == v.account
        has_addr == \E i \in DOMAIN d.addresses : d.addresses[i].account_id = id
    IN [d EXCEPT
          !.accounts = [d.accounts EXCEPT ![id] =
                          [@ EXCEPT !.name = v.name, !.probability = v.probability,
                                    !.account_partner = v.account_partner,
                                    !.delivery_partner = v.delivery_partner,
                                    !.department_id = v.refs["Department"],
                                    !.unit_id = v.refs["Unit"],
                                    !.vertical_id = v.refs["Vertical"],
                                    !.location_id = v.refs["Location"],
                                    !.status_id = v.refs["Status"]]],
          !.addresses = IF has_addr
                        THEN [i \in DOMAIN d.addresses |->
                                IF d.addresses[i].account_id = id
                                THEN [d.addresses[i] EXCEPT
                                        !.addressLine1 = v.address.addressLine1,
                                        !.addressLine2 = v.address.addressLine2,
                                        !.city = v.address.city,
                                        !.state = v.address.state,
                                        !.countryCode = v.address.countryCode,
                                        !.zip = v.address.zip]
                                ELSE d.addresses[i]]
                        ELSE Append(d.addresses, Address(id, v.address)),
          !.contacts = SelectSeq(d.contacts, LAMBDA c : c.account_id # id)
                          \o new_contacts(d, id, v.contacts),
          !.next_contact = d.next_contact + Len(v.contacts)]

\* CREATE NEW ACCOUNT after the flush of the Account: address, then contacts
write_create(d, v) ==
    LET id == Len(d.accounts) + 1
    IN [d EXCEPT
          !.accounts = Append(d.accounts,
                          Account(v.name, v.code, v.probability, v.account_partner,
                                  v.delivery_partner, v.refs)),
          !.addresses = Append(d.addresses, Address(id, v.address)),
          !.contacts = d.contacts \o new_contacts(d, id, v.contacts),
          !.next_contact = d.next_contact + Len(v.contacts)]

\* the writes of the row whose checks gave p; db.flush() of a new Account
\* raises when a stored Account, deleted or not, has its code
write_row(d, p) ==
    IF ~p.ok THEN Raise(d, p.error)
    ELSE IF p.v.account # 0 THEN Return(write_update(d, p.v), "updated")
    ELSE IF ~code_unique(d.accounts, p.v.code, 0)
         THEN Raise(d, Error("IntegrityError", "accounts.code", p.v.code))
    ELSE Return(write_create(d, p.v), "created")

process_import_row(d, row) == write_row(d, row_values(d, row))

-----------------------------------------------------------------------------
(* import_accounts *)

\* enumerate(rows, start=2): the number reported for the first data row
FirstRowNumber == 2

EmptySummary ==
    [processed |-> 0, created |-> 0, updated |-> 0, failed |-> 0, errors |-> << >>]

\* import_precheck, mutated: an upload without data rows goes to the row loop
import_precheck_rows_unchecked(file) ==
    IF file.content_empty THEN [status |-> 400, detail |-> "File is empty"]
    ELSE IF file.filename_lower \notin {"csv", "xlsx"}
         THEN [status |-> 400, detail |-> "File must be CSV or XLSX"]
    ELSE [status |-> 200, detail |-> ""]

\* the checks made on the upload before the row loop: the status and detail
\* of the rejection, status 200 when the rows are processed
import_precheck(file) ==
    IF file.content_empty THEN [status |-> 400, detail |-> "File is empty"]
    ELSE IF file.filename_lower \notin {"csv", "xlsx"}
         THEN [status |-> 400, detail |-> "File must be CSV or XLSX"]
    ELSE IF file.nrows = 0 THEN [status |-> 400, detail |-> "No data found in file"]
    ELSE [status |-> 200, detail |-> ""]

\* import_row, mutated: the Account of a new Code is committed before the rest
\* of the row is checked, and stays when the row fails
import_row_partial(d, row) ==
    LET r == process_import_row(d, row)
        name == null_if_empty(RowGet(row, "Name"))
        code == null_if_empty(RowGet(row, "Code"))
    IN IF r.ok THEN [ok |-> TRUE, result |-> r.result, error |-> NoError, db |-> r.work]
       ELSE [ok |-> FALSE, result |-> "failed", error |-> r.error,
             db |-> IF /\ ~Falsy(name)
                       /\ ~Falsy(code)
                       /\ active_account_by_code(d, code) = 0
                       /\ code_unique(d.accounts, code, 0)
                    THEN [d EXCEPT !.accounts =
                            Append(@, Account(name, code, None, None, None,
                                              [c \in Categories |-> None]))]
                    ELSE d]

\* one turn of the row loop on storage: process_import_row, then db.commit(),
\* or db.rollback() to the state before the row when it raised
\* commit_or_rollback, mutated: the writes of a row that succeeds are lost
commit_or_rollback_discard(d, r) ==
    IF r.ok THEN [ok |-> TRUE, result |-> r.result, error |-> NoError, db |-> d]
    ELSE [ok |-> FALSE, result |-> "failed", error |-> r.error, db |-> d]

commit_or_rollback(d, r) ==
    IF r.ok THEN [ok |-> TRUE, result |-> r.result, error |-> NoError, db |-> r.work]
    ELSE [ok |-> FALSE, result |-> "failed", error |-> r.error, db |-> d]

import_row(d, row) == commit_or_rollback(d, process_import_row(d, row))

\* summarize, mutated: the rows are numbered from 1
summarize_from_one(summary, idx, r) ==
    IF r.ok
    THEN [summary EXCEPT !.processed = @ + 1, ![r.result] = @ + 1]
    ELSE [summary EXCEPT
            !.failed = @ + 1,
            !.errors = Append(@, [row |-> idx + 1, error |-> r.error])]

\* one turn of the row loop on the summary; idx rows were handled before
summarize(summary, idx, r) ==
    IF r.ok
    THEN [summary EXCEPT !.processed = @ + 1, ![r.result] = @ + 1]
    ELSE [summary EXCEPT
            !.failed = @ + 1,
            !.errors = Append(@, [row |-> idx + FirstRowNumber, error |-> r.error])]

\* next_index, mutated: the loop ends at the first failing row
next_index_break(idx, n, r) == IF r.ok THEN idx + 1 ELSE n

\* the loop goes on to the next row whatever the outcome of this one
next_index(idx, n, r) == idx + 1

\* call: the function of the import called last on its own, its arguments and
\* what it returned; no such call was made since storage changed
NoCall == [fn |-> "", arg |-> << >>, ret |-> << >>]

\* sessions: the requests served at the same time.  pc is the position of
\* the request in its handler, req the request, v the values of its import
\* row, inserts whether it is on the way to INSERT an Account, outcome the
\* status or the row outcome it ended with
NoSession == [pc |-> "idle", req |-> 0, v |-> << >>, inserts |-> FALSE, outcome |-> ""]

NoSessions == [r \in 1..MaxSessions |-> NoSession]

\* no response of the import endpoint is in flight
NoResponse == [status |-> 0, body |-> << >>]

\* imp: the import request in progress.  pc, n, idx and summary are the
\* position and the locals of import_accounts; row, before and outcomes
\* record the row handled last, storage before it and the outcome of every
\* row handled; ref and ref_outcomes are storage and outcomes of the same
\* upload with its failing rows left out.
Idle ==
    [pc |-> "idle", n |-> 0, idx |-> 0, summary |-> EmptySummary,
     row |-> << >>, before |-> EmptyDb, outcomes |-> << >>,
     ref |-> EmptyDb, ref_outcomes |-> << >>]

-----------------------------------------------------------------------------
(* Uploaded files and rows *)

Extensions == {"csv", "xlsx", "txt"}

\* the uploads of at most maxrows data rows
Files(maxrows) ==
    {[content_empty |-> e, filename_lower |-> x, nrows |-> n] :
        e \in BOOLEAN, x \in Extensions, n \in 0..maxrows}

\* an empty upload has no rows
PossibleFile(f) == f.content_empty => f.nrows = 0

BlankRow == [c \in Columns |-> None]

RowFullA ==
    [c \in {"Name"} |-> Some(<<" ", "N", " ">>)]
    @@ [c \in {"Code"} |-> Some(<<"A">>)]
    @@ [c \in {"Probability"} |-> Some(<<"7">>)]
    @@ [c \in {"Account Partner"} |-> Some(<<"P">>)]
    @@ [c \in {"Delivery Partner"} |-> Some(<<"Q">>)]
    @@ [c \in {"Department"} |-> Some(<<"D", " ">>)]
    @@ [c \in {"Address Line1"} |-> Some(<<"L">>)]
    @@ [c \in {"Address Line2"} |-> Some(<<"2">>)]
    @@ [c \in {"City"} |-> Some(<<"C">>)]
    @@ [c \in {"State"} |-> Some(<<"S">>)]
    @@ [c \in {"Zip"} |-> Some(<<"Z">>)]
    @@ [c \in {"Country"} |-> Some(<<"I">>)]
    @@ [c \in {"Contacts (Name/Email/Phone)"} |->
          Some(<<"J", "/", "j", "/", "9", ";", " ", "M", "/", "m">>)]
    @@ BlankRow

RowMinA ==
    [c \in {"Name"} |-> Some(<<"M">>)]
    @@ [c \in {"Code"} |-> Some(<<"A">>)]
    @@ [c \in {"Probability"} |-> Some(<<" ">>)]
    @@ [c \in {"Address Line1"} |-> Some(<<"K">>)]
    @@ [c \in {"City"} |-> Some(<<"C">>)]
    @@ [c \in {"Country"} |-> Some(<<"U">>)]
    @@ [c \in {"Contacts (Name/Email/Phone)"} |-> Some(<< >>)]
    @@ BlankRow

RowB ==
    [c \in {"Name"} |-> Some(<<"N">>)]
    @@ [c \in {"Code"} |-> Some(<<" ", "B">>)]
    @@ [c \in {"Probability"} |-> Some(<<"0">>)]
    @@ [c \in {"Address Line1"} |-> Some(<<"L">>)]
    @@ [c \in {"City"} |-> Some(<<"C">>)]
    @@ [c \in {"Country"} |-> Some(<<"I">>)]
    @@ [c \in {"Contacts (Name/Email/Phone)"} |-> Some(<<"K", "/", "k">>)]
    @@ BlankRow

RowNoCity == [c \in {"City"} |-> Some(<<" ">>)] @@ RowMinA

RowBadProbability == [c \in {"Probability"} |-> Some(<<"x">>)] @@ RowB

RowBadContacts ==
    [c \in {"Contacts (Name/Email/Phone)"} |-> Some(<<"O">>)] @@ RowFullA

RowNoName == [c \in {"Name"} |-> None] @@ RowMinA

RowNoCode == [c \in {"Code"} |-> Some(<<" ", " ">>)] @@ RowB

RowNoLine1 == [c \in {"Address Line1"} |-> Some(<< >>)] @@ RowFullA

RowNoCountry == [c \in {"Country"} |-> None] @@ RowB

\* the rows of the one-row uploads: every kind of failure of a row
ImportRows ==
    {RowFullA, RowMinA, RowB, RowNoCity, RowBadProbability, RowBadContacts,
     RowNoName, RowNoCode, RowNoLine1, RowNoCountry}

\* the rows of the uploads of several rows
FewRows == {RowFullA, RowMinA, RowB, RowNoCity}

-----------------------------------------------------------------------------
(* accounts.py *)

Result(status, d) == [status |-> status, db |-> d]

\* validate_fk over the five lookup references, in the order of the calls
fk_ok(d, p) ==
    \A c \in Categories : p[RefField[c]] = None \/ active_lookup(d, c, Val(p[RefField[c]]))

\* create_account, mutated: the billing address is not stored
create_account_no_address(d, p) ==
    IF active_account_by_code(d, p.code) # 0 THEN Result(400, d)
    ELSE IF ~fk_ok(d, p) THEN Result(404, d)
    \* db.flush() of the Account: unique accounts.code
    ELSE IF ~code_unique(d.accounts, p.code, 0) THEN Result(500, d)
    \* Contact(**data, account_id=...): data already holds account_id (TypeError)
    ELSE IF p.contacts # << >> THEN Result(500, d)
    ELSE Result(201,
           [d EXCEPT
              !.accounts = Append(@,
                  Account(p.name, p.code, p.probability, p.account_partner,
                          p.delivery_partner,
                          [c \in Categories |-> p[RefField[c]]]))])

create_account(d, p) ==
    IF active_account_by_code(d, p.code) # 0 THEN Result(400, d)
    ELSE IF ~fk_ok(d, p) THEN Result(404, d)
    \* db.flush() of the Account: unique accounts.code
    ELSE IF ~code_unique(d.accounts, p.code, 0) THEN Result(500, d)
    \* Contact(**data, account_id=...): data already holds account_id (TypeError)
    ELSE IF p.contacts # << >> THEN Result(500, d)
    ELSE Result(201,
           [d EXCEPT
              !.accounts = Append(@,
                  Account(p.name, p.code, p.probability, p.account_partner,
                          p.delivery_partner,
                          [c \in Categories |-> p[RefField[c]]])),
              !.addresses = Append(@, Address(Len(d.accounts) + 1, p.billing_address))])

\* the columns an AccountUpdate can set
AccountUpdateFields ==
    {"name", "code", "probability", "account_partner", "delivery_partner",
     "department_id", "unit_id", "vertical_id", "location_id", "status_id"}

\* update_account, mutated: a field the request does not give is set to None
update_account_overwrite(d, id, u) ==
    IF ~active_account(d, id) THEN Result(404, d)
    ELSE IF ~Falsy(u.val.code)
            /\ \E i \in DOMAIN d.accounts :
                  /\ d.accounts[i].code = u.val.code
                  /\ i # id
                  /\ ~d.accounts[i].is_deleted
         THEN Result(400, d)
    ELSE IF ~fk_ok(d, u.val) THEN Result(404, d)
    ELSE LET acc == [f \in DOMAIN d.accounts[id] |->
                        IF f \in AccountUpdateFields THEN u.val[f] ELSE d.accounts[id][f]]
         IN \* db.commit(): NOT NULL name and code, unique code
            IF acc.name = None \/ acc.code = None
               \/ ~code_unique(d.accounts, acc.code, id)
            THEN Result(500, d)
            ELSE Result(200, [d EXCEPT !.accounts[id] = acc])

\* u.set: the fields given in the request (exclude_unset); u.val: all fields,
\* None when not given
update_account(d, id, u) ==
    IF ~active_account(d, id) THEN Result(404, d)
    ELSE IF ~Falsy(u.val.code)
            /\ \E i \in DOMAIN d.accounts :
                  /\ d.accounts[i].code = u.val.code
                  /\ i # id
                  /\ ~d.accounts[i].is_deleted
         THEN Result(400, d)
    ELSE IF ~fk_ok(d, u.val) THEN Result(404, d)
    ELSE LET acc == [f \in DOMAIN d.accounts[id] |->
                        IF f \in u.set THEN u.val[f] ELSE d.accounts[id][f]]
         IN \* db.commit(): NOT NULL name and code, unique code
            IF acc.name = None \/ acc.code = None
               \/ ~code_unique(d.accounts, acc.code, id)
            THEN Result(500, d)
            ELSE Result(200, [d EXCEPT !.accounts[id] = acc])

\* soft_delete_account, mutated: the contacts of the account are left as they are
soft_delete_account_skip_contacts(d, id) ==
    IF ~active_account(d, id) THEN Result(404, d)
    ELSE Result(204,
           [d EXCEPT
              !.accounts[id] = MarkDeleted(@),
              !.addresses = [i \in DOMAIN @ |->
                               IF @[i].account_id = id THEN MarkDeleted(@[i]) ELSE @[i]],
              !.projects = [i \in DOMAIN @ |->
                              IF @[i].account_id = id THEN MarkDeleted(@[i]) ELSE @[i]]])

soft_delete_account(d, id) ==
    IF ~active_account(d, id) THEN Result(404, d)
    ELSE Result(204,
           [d EXCEPT
              !.accounts[id] = MarkDeleted(@),
              !.addresses = [i \in DOMAIN @ |->
                               IF @[i].account_id = id THEN MarkDeleted(@[i]) ELSE @[i]],
              !.contacts = [i \in DOMAIN @ |->
                              IF @[i].account_id = id THEN MarkDeleted(@[i]) ELSE @[i]],
              !.projects = [i \in DOMAIN @ |->
                              IF @[i].account_id = id THEN MarkDeleted(@[i]) ELSE @[i]]])

\* selectinload(Account.billing_address / contacts / projects): the rows of
\* the relationship, whatever their is_deleted
AccountOut(d, id) ==
    [id |-> id, account |-> d.accounts[id],
     billing_address |-> {i \in DOMAIN d.addresses : d.addresses[i].account_id = id},
     contacts |-> {d.contacts[i].id : i \in {j \in DOMAIN d.contacts :
                                                d.contacts[j].account_id = id}},
     projects |-> {i \in DOMAIN d.projects : d.projects[i].account_id = id}]

get_all_accounts(d) ==
    {AccountOut(d, id) : id \in {i \in DOMAIN d.accounts : ~d.accounts[i].is_deleted}}

\* the account returned, the empty set for 404
get_account_by_id(d, id) ==
    IF active_account(d, id) THEN {AccountOut(d, id)} ELSE {}

-----------------------------------------------------------------------------
(* contact.py *)

\* position in d.contacts of the non-deleted contact with this id, 0 if none
active_contact(d, cid) ==
    LET hits == {i \in DOMAIN d.contacts :
                    d.contacts[i].id = cid /\ ~d.contacts[i].is_deleted}
    IN IF hits = {} THEN 0 ELSE Min(hits)

\* create_contact, mutated: the account of the contact is not looked up
create_contact_unchecked(d, p) ==
    Result(201,
      [d EXCEPT !.contacts = Append(@, Contact(d.next_contact, p.account_id, p)),
                !.next_contact = @ + 1])

create_contact(d, p) ==
    IF ~active_account(d, p.account_id) THEN Result(404, d)
    ELSE Result(201,
           [d EXCEPT !.contacts = Append(@, Contact(d.next_contact, p.account_id, p)),
                     !.next_contact = @ + 1])

\* p.account_id is 0 when the request gives none
update_contact(d, cid, p) ==
    LET i == active_contact(d, cid)
    IN IF i = 0 THEN Result(404, d)
       ELSE LET c == d.contacts[i]
                named == IF ~Falsy(p.name) THEN [c EXCEPT !.name = p.name] ELSE c
                mailed == IF ~Falsy(p.email) THEN [named EXCEPT !.email = p.email]
                          ELSE named
                phoned == IF ~Falsy(p.phone) THEN [mailed EXCEPT !.phone = p.phone]
                          ELSE mailed
            IN IF p.account_id # 0 /\ p.account_id # c.account_id
               THEN IF ~active_account(d, p.account_id)
                    \* raised before the commit: the session is dropped
                    THEN Result(404, d)
                    ELSE Result(200,
                           [d EXCEPT !.contacts[i] =
                                        [phoned EXCEPT !.account_id = p.account_id]])
               ELSE Result(200, [d EXCEPT !.contacts[i] = phoned])

\* delete_contact, mutated: the contact is found whether soft-deleted or
\* not and its flag is switched
delete_contact_toggle(d, cid) ==
    LET hits == {i \in DOMAIN d.contacts : d.contacts[i].id = cid}
    IN IF hits = {} THEN Result(404, d)
       ELSE IF d.contacts[Min(hits)].is_deleted
            THEN Result(204, [d EXCEPT !.contacts[Min(hits)].is_deleted = FALSE])
       ELSE Result(204, [d EXCEPT !.contacts[Min(hits)] = MarkDeleted(@)])

delete_contact(d, cid) ==
    LET i == active_contact(d, cid)
    IN IF i = 0 THEN Result(404, d)
       ELSE Result(204, [d EXCEPT !.contacts[i] = MarkDeleted(@)])

\* ids of the contacts returned
get_all_contacts(d) ==
    {d.contacts[i].id : i \in {j \in DOMAIN d.contacts : ~d.contacts[j].is_deleted}}

get_contact_by_id(d, cid) ==
    IF active_contact(d, cid) # 0 THEN {cid} ELSE {}

-----------------------------------------------------------------------------
(* projects.py *)

active_project(d, pid) == pid \in DOMAIN d.projects /\ ~d.projects[pid].is_deleted

create_project(d, p) ==
    IF ~active_account(d, p.account_id) THEN Result(400, d)
    ELSE IF ~Falsy(p.project_code)
            /\ \E i \in DOMAIN d.projects :
                  d.projects[i].project_code = p.project_code /\ ~d.projects[i].is_deleted
         THEN Result(400, d)
    ELSE Result(201,
           [d EXCEPT !.projects =
                        Append(@, Project(p.account_id, p.project_name, p.project_code))])

\* ProjectUpdate has no account_id: a project is never moved.  u.set, u.val
\* as for update_account
update_project_details(d, pid, u) ==
    IF ~active_project(d, pid) THEN Result(404, d)
    ELSE IF "project_code" \in u.set
            /\ u.val.project_code # d.projects[pid].project_code
            /\ ~Falsy(u.val.project_code)
            /\ \E i \in DOMAIN d.projects :
                  /\ d.projects[i].project_code = u.val.project_code
                  /\ i # pid
                  /\ ~d.projects[i].is_deleted
         THEN Result(400, d)
    ELSE Result(200,
           [d EXCEPT !.projects[pid] =
                        [f \in DOMAIN @ |-> IF f \in u.set THEN u.val[f] ELSE @[f]]])

soft_delete_project(d, pid) ==
    IF ~active_project(d, pid) THEN Result(404, d)
    ELSE Result(204, [d EXCEPT !.projects[pid] = MarkDeleted(@)])

\* ids of the projects returned; each is returned with its Account loaded
get_all_projects(d) == {i \in DOMAIN d.projects : ~d.projects[i].is_deleted}

get_project_by_id(d, pid) == IF active_project(d, pid) THEN {pid} ELSE {}

-----------------------------------------------------------------------------
(* departments.py, units.py, verticals.py, locations.py, statuses.py *)

create_lookup(d, model, name) ==
    IF \E i \in DOMAIN d.lookups[model] :
          d.lookups[model][i].name = name /\ ~d.lookups[model][i].is_deleted
    THEN Result(400, d)
    \* db.commit(): unique name over all stored rows
    ELSE IF \E i \in DOMAIN d.lookups[model] : d.lookups[model][i].name = name
         THEN Result(500, d)
    ELSE Result(201, [d EXCEPT !.lookups[model] = Append(@, LookupRow(name))])

\* update_lookup, mutated: the entry is renamed without looking at the others
update_lookup_unchecked(d, model, id, name) ==
    IF ~active_lookup(d, model, id) THEN Result(404, d)
    ELSE IF ~Falsy(name) THEN Result(200, [d EXCEPT !.lookups[model][id].name = name])
    ELSE Result(200, d)

\* update_department and its four siblings; name is None when the request
\* gives none
update_lookup(d, model, id, name) ==
    IF ~active_lookup(d, model, id) THEN Result(404, d)
    ELSE IF ~Falsy(name) /\ name # d.lookups[model][id].name
         THEN IF \E i \in DOMAIN d.lookups[model] :
                    /\ i # id
                    /\ d.lookups[model][i].name = name
                    /\ ~d.lookups[model][i].is_deleted
              THEN Result(400, d)
              \* db.commit(): unique name over all stored rows
              ELSE IF \E i \in DOMAIN d.lookups[model] :
                         i # id /\ d.lookups[model][i].name = name
                   THEN Result(500, d)
              ELSE Result(200, [d EXCEPT !.lookups[model][id].name = name])
    \* only updated_by and updated_at are written
    ELSE Result(200, d)

delete_lookup(d, model, id) ==
    IF ~active_lookup(d, model, id) THEN Result(404, d)
    ELSE Result(204, [d EXCEPT !.lookups[model][id] = MarkDeleted(@)])

-----------------------------------------------------------------------------
(* account_export.py *)

Digits == <<"0", "1", "2", "3", "4", "5", "6", "7", "8", "9">>

\* str(n) for an int n
RECURSIVE StrOfNat(_)
StrOfNat(n) == IF n < 10 THEN <<Digits[n + 1]>> ELSE Append(StrOfNat(n \div 10), Digits[(n % 10) + 1])

StrOfInt(n) == IF n < 0 THEN <<"-">> \o StrOfNat(0 - n) ELSE StrOfNat(n)

\* sep.join(parts)
RECURSIVE Join(_, _)
Join(parts, sep) ==
    IF parts = << >> THEN << >>
    ELSE IF Len(parts) = 1 THEN parts[1]
    ELSE parts[1] \o sep \o Join(Tail(parts), sep)

\* `value or ""`
OrEmpty(o) == IF o = None THEN << >> ELSE Val(o)

\* acc.contacts: the Contact rows of the account, whatever their is_deleted
account_contacts(d, id) == SelectSeq(d.contacts, LAMBDA c : c.account_id = id)

serialize_contact(c) ==
    OrEmpty(c.name) \o <<"/">> \o OrEmpty(c.email) \o <<"/">> \o OrEmpty(c.phone)

serialize_contact_list(cs) ==
    Join([i \in DOMAIN cs |-> serialize_contact(cs[i])], <<";", " ">>)

serialize_contacts(d, id) == serialize_contact_list(account_contacts(d, id))

\* acc.department.name and its siblings: the entry the foreign key names,
\* whatever its is_deleted
lookup_name(d, model, ref) == IF ref = None THEN None ELSE d.lookups[model][Val(ref)].name

\* acc.billing_address: None without an Address row
billing_address(d, id) ==
    IF \E i \in DOMAIN d.addresses : d.addresses[i].account_id = id
    THEN Some(d.addresses[Min({i \in DOMAIN d.addresses : d.addresses[i].account_id = id})])
    ELSE None

\* the value written for an int column
int_cell(o) == IF o = None THEN None ELSE Some(StrOfInt(Val(o)))

serialize_fields(d, acc, addr, contacts) ==
    [c \in {"Name"} |-> acc.name]
    @@ [c \in {"Code"} |-> acc.code]
    @@ [c \in {"Probability"} |-> int_cell(acc.probability)]
    @@ [c \in {"Account Partner"} |-> acc.account_partner]
    @@ [c \in {"Delivery Partner"} |-> acc.delivery_partner]
    @@ [c \in Categories |-> lookup_name(d, c, acc[RefField[c]])]
    @@ [c \in {"Address Line1"} |-> IF addr = None THEN None ELSE Val(addr).addressLine1]
    @@ [c \in {"Address Line2"} |-> IF addr = None THEN None ELSE Val(addr).addressLine2]
    @@ [c \in {"City"} |-> IF addr = None THEN None ELSE Val(addr).city]
    @@ [c \in {"State"} |-> IF addr = None THEN None ELSE Val(addr).state]
    @@ [c \in {"Zip"} |-> IF addr = None THEN None ELSE Val(addr).zip]
    @@ [c \in {"Country"} |-> IF addr = None THEN None ELSE Val(addr).countryCode]
    @@ [c \in {"Contacts (Name/Email/Phone)"} |-> Some(contacts)]

serialize_account(d, id) ==
    serialize_fields(d, d.accounts[id], billing_address(d, id), serialize_contacts(d, id))

\* the cell read back from the written file: csv writes None as the empty
\* text, a workbook leaves the cell empty
written(format, cell) == IF cell = None /\ format = "csv" THEN Some(<< >>) ELSE cell

written_row(format, row) == [c \in DOMAIN row |-> written(format, row[c])]

\* ids of the accounts exported, in storage order
exported_ids(d) ==
    SelectSeq([i \in DOMAIN d.accounts |-> i], LAMBDA i : ~d.accounts[i].is_deleted)

export_rows(d, format, ids) ==
    [k \in DOMAIN ids |-> written_row(format, serialize_account(d, ids[k]))]

\* the data rows of the file that export_accounts answers
export_accounts(d, format) == export_rows(d, format, exported_ids(d))

-----------------------------------------------------------------------------
(* Actions: import *)

Init ==
    /\ db = EmptyDb
    /\ imp = Idle
    /\ response = NoResponse
    /\ steps = 0
    /\ call = NoCall
    /\ sessions = NoSessions

\* import_accounts up to the row loop, for one upload
ImportStartFile(file) ==
    /\ imp.pc = "idle"
    /\ LET pre == import_precheck(file)
       IN IF pre.status # 200
          THEN /\ response' = [status |-> pre.status, body |-> pre.detail]
               /\ imp' = Idle
          ELSE /\ response' = NoResponse
               /\ imp' = [Idle EXCEPT !.pc = "rows", !.n = file.nrows, !.ref = db]
    /\ UNCHANGED <<db, steps, call, sessions>>

ImportStart(maxrows) ==
    \E file \in Files(maxrows) : PossibleFile(file) /\ ImportStartFile(file)

\* the end of a turn of the row loop: r is what the row gave on storage, q
\* what it gave on the storage of the upload without its failing rows
ImportRowResult(row, r, q) ==
    /\ r.ok => steps < MaxSteps
    /\ db' = r.db
    /\ steps' = IF r.ok THEN steps + 1 ELSE steps
    /\ imp' = [imp EXCEPT
                 !.idx = next_index(imp.idx, imp.n, r),
                 !.summary = summarize(imp.summary, imp.idx, r),
                 !.row = row,
                 !.before = db,
                 !.outcomes = Append(@, r.result),
                 !.ref = IF r.ok THEN q.db ELSE @,
                 !.ref_outcomes = IF r.ok THEN Append(@, q.result) ELSE @]
    /\ UNCHANGED <<response, call, sessions>>

\* one turn of the row loop
ImportRow(rows) ==
    /\ imp.pc = "rows"
    /\ imp.idx < imp.n
    /\ \E row \in rows : ImportRowResult(row, import_row(db, row), import_row(imp.ref, row))

\* return summary
ImportFinish ==
    /\ imp.pc = "rows"
    /\ imp.idx >= imp.n
    /\ response' = [status |-> 200, body |-> imp.summary]
    /\ imp' = Idle
    /\ UNCHANGED <<db, steps, call, sessions>>

-----------------------------------------------------------------------------
(* Requests issued in the model *)

AddressL == [addressLine1 |-> Some(<<"L">>), addressLine2 |-> None,
             city |-> Some(<<"C">>), state |-> None,
             countryCode |-> Some(<<"I">>), zip |-> None]

NoRefs == [department_id |-> None, unit_id |-> None, vertical_id |-> None,
           location_id |-> None, status_id |-> None]

AccountCreateA ==
    [name |-> Some(<<"N">>), code |-> Some(<<"A">>), probability |-> Some(5),
     account_partner |-> Some(<<"P">>), delivery_partner |-> None,
     billing_address |-> AddressL, contacts |-> << >>] @@ NoRefs

AccountCreates ==
    {AccountCreateA,
     [AccountCreateA EXCEPT !.code = Some(<< >>), !.department_id = Some(1)],
     [AccountCreateA EXCEPT !.code = Some(<<"B">>),
                            !.contacts = <<[name |-> Some(<<"J">>),
                                            email |-> Some(<<"j">>),
                                            phone |-> None, account_id |-> 1]>>]}

NoUpdate ==
    [set |-> {},
     val |-> [name |-> None, code |-> None, probability |-> None,
              account_partner |-> None, delivery_partner |-> None] @@ NoRefs]

AccountUpdates ==
    {[NoUpdate EXCEPT !.set = {"code"}, !.val.code = Some(<<"B">>)],
     [NoUpdate EXCEPT !.set = {"code", "name"}, !.val.code = Some(<< >>)],
     [NoUpdate EXCEPT !.set = {"code", "name", "probability"},
                      !.val.code = Some(<< >>), !.val.name = Some(<<"M">>)]}

ContactCreates ==
    {[name |-> Some(<<"K">>), email |-> Some(<<"k">>), phone |-> None, account_id |-> a] :
        a \in 1..2}

ContactUpdates ==
    {[name |-> Some(<<"R">>), email |-> None, phone |-> Some(<< >>), account_id |-> 0]}
    \cup {[name |-> None, email |-> None, phone |-> None, account_id |-> a] : a \in 1..2}

ProjectCreates ==
    {[account_id |-> a, project_name |-> Some(<<"W">>), project_code |-> Some(<<"X">>)] :
        a \in 1..2}

ProjectUpdates ==
    {[set |-> {"project_name"}, val |-> [project_name |-> None, project_code |-> None]]}

LookupRequests == {<<"Department", Some(<<"D">>)>>}

\* the lookup requests of the specification of the lookup tables
LookupModels == {"Department", "Unit"}

LookupNames == {Some(<<"D">>), Some(<<"E">>), Some(<< >>)}

\* ids addressed by the requests: the stored ones and one that is not stored
Ids(table) == 1..(Len(table) + 1)

-----------------------------------------------------------------------------
(* Actions: direct requests *)

\* a request answered outside the import: the response, and the storage
\* when the request wrote (2xx)
Respond(op, r) ==
    /\ imp.pc = "idle"
    /\ r.db # db => steps < MaxSteps
    /\ db' = r.db
    /\ steps' = IF r.db # db THEN steps + 1 ELSE steps
    /\ response' = NoResponse
    /\ call' = NoCall
    /\ UNCHANGED <<imp, sessions>>

CreateAccount == \E p \in AccountCreates : Respond("create_account", create_account(db, p))

UpdateAccount ==
    \E id \in Ids(db.accounts), u \in AccountUpdates :
        Respond("update_account", update_account(db, id, u))

SoftDeleteAccount ==
    \E id \in Ids(db.accounts) : Respond("soft_delete_account", soft_delete_account(db, id))

CreateContact == \E p \in ContactCreates : Respond("create_contact", create_contact(db, p))

UpdateContact ==
    \E cid \in 1..db.next_contact, p \in ContactUpdates :
        Respond("update_contact", update_contact(db, cid, p))

DeleteContact ==
    \E cid \in 1..db.next_contact : Respond("delete_contact", delete_contact(db, cid))

CreateProject == \E p \in ProjectCreates : Respond("create_project", create_project(db, p))

UpdateProject ==
    \E pid \in Ids(db.projects), u \in ProjectUpdates :
        Respond("update_project_details", update_project_details(db, pid, u))

SoftDeleteProject ==
    \E pid \in Ids(db.projects) : Respond("soft_delete_project", soft_delete_project(db, pid))

CreateLookup ==
    \E q \in LookupRequests : Respond("create_lookup", create_lookup(db, q[1], q[2]))

DeleteLookup ==
    \E q \in LookupRequests : \E id \in Ids(db.lookups[q[1]]) :
        Respond("delete_lookup", delete_lookup(db, q[1], id))

CreateLookupEntry ==
    \E m \in LookupModels, name \in LookupNames :
        Respond("create_lookup", create_lookup(db, m, name))

UpdateLookupEntry ==
    \E m \in LookupModels : \E id \in Ids(db.lookups[m]), name \in LookupNames \cup {None} :
        Respond("update_lookup", update_lookup(db, m, id, name))

DeleteLookupEntry ==
    \E m \in LookupModels : \E id \in Ids(db.lookups[m]) :
        Respond("delete_lookup", delete_lookup(db, m, id))

\* GET /accounts/export: the data rows of the file answered
ExportAccounts ==
    /\ imp.pc = "idle"
    /\ \E format \in {"csv", "xlsx"} :
         call' = [fn |-> "export_accounts", arg |-> [format |-> format, db |-> db],
                  ret |-> export_accounts(db, format)]
    /\ UNCHANGED <<db, imp, response, steps, sessions>>

\* the file answered by the export is uploaded to the import as it is
ReimportStart ==
    /\ call.fn = "export_accounts"
    /\ call.arg.db = db
    /\ ImportStartFile([content_empty |-> FALSE, filename_lower |-> call.arg.format,
                        nrows |-> Len(call.ret)])

\* one turn of the row loop on the next row of that file
ReimportRow ==
    /\ imp.pc = "rows"
    /\ imp.idx < imp.n
    /\ call.fn = "export_accounts"
    /\ ImportRowResult(call.ret[imp.idx + 1], import_row(db, call.ret[imp.idx + 1]),
                       import_row(imp.ref, call.ret[imp.idx + 1]))

\* the whole service; the uploads made between direct requests have one row
\* (every row is committed on its own, so storage reaches the same states)
Next ==
    \/ ImportStart(1)
    \/ ImportRow(ImportRows)
    \/ ImportFinish
    \/ CreateAccount
    \/ UpdateAccount
    \/ SoftDeleteAccount
    \/ CreateContact
    \/ UpdateContact
    \/ DeleteContact
    \/ CreateProject
    \/ UpdateProject
    \/ SoftDeleteProject
    \/ CreateLookup
    \/ DeleteLookup

Spec == Init /\ [][Next]_vars

\* the import of uploads of several rows, on the storage states that lookup,
\* account and contact deletions prepare
NextImport ==
    \/ ImportStart(MaxRows)
    \/ ImportRow(FewRows)
    \/ ImportFinish
    \/ CreateLookup
    \/ DeleteLookup
    \/ SoftDeleteAccount
    \/ DeleteContact

SpecImport == Init /\ [][NextImport]_vars

\* the lookup tables under their create, rename and soft-delete requests
\* the names given to resolve_lookup_by_name
ResolveNames ==
    {None, Some(<< >>), Some(<<"D">>), Some(<<" ", "D", " ">>), Some(<<"E">>),
     Some(<<" ">>)}

\* one call of resolve_lookup_by_name with the category's own label
ResolveLookup ==
    \E m \in LookupModels, name \in ResolveNames :
        /\ call' = [fn |-> "resolve_lookup_by_name",
                    arg |-> [model |-> m, name |-> name, label |-> m],
                    ret |-> resolve_lookup_by_name(db, m, name, m)]
        /\ UNCHANGED <<db, imp, response, steps, sessions>>

NextLookup ==
    \/ CreateLookupEntry
    \/ UpdateLookupEntry
    \/ DeleteLookupEntry
    \/ ResolveLookup

SpecLookup == Init /\ [][NextLookup]_vars

\* the codes given to update_account
AccountCodes == {Some(<<"A">>), Some(<<"B">>), Some(<< >>)}

CodeUpdate(code) == [NoUpdate EXCEPT !.set = {"code"}, !.val.code = code]

\* update_account with a request that gives a code only
UpdateAccountCode ==
    \E id \in Ids(db.accounts), code \in AccountCodes :
        Respond("update_account", update_account(db, id, CodeUpdate(code)))

\* accounts and lookup entries created, renamed and soft-deleted
NextKeys ==
    \/ CreateAccount
    \/ UpdateAccountCode
    \/ SoftDeleteAccount
    \/ CreateLookupEntry
    \/ UpdateLookupEntry
    \/ DeleteLookupEntry

SpecKeys == Init /\ [][NextKeys]_vars

\* accounts, contacts and lookups made by direct requests, exported and
\* imported again
NextRoundTrip ==
    \/ CreateAccount
    \/ CreateContact
    \/ DeleteContact
    \/ CreateLookup
    \/ DeleteLookup
    \/ ExportAccounts
    \/ ReimportStart
    \/ ReimportRow
    \/ ImportFinish

SpecRoundTrip == Init /\ [][NextRoundTrip]_vars

-----------------------------------------------------------------------------
(* Uploads of rows that differ in their Probability cell *)

ProbabilityCells ==
    {None, Some(<< >>), Some(<<" ">>), Some(<<"0">>), Some(<<"7">>),
     Some(<<"-", "3">>), Some(<<" ", "+", "4", " ">>), Some(<<"1", "_", "0">>),
     Some(<<"x">>), Some(<<"7", ".", "0">>), Some(<<"-">>)}

ProbabilityRows == {[c \in {"Probability"} |-> p] @@ RowMinA : p \in ProbabilityCells}

NextProbability ==
    \/ ImportStart(MaxRows)
    \/ ImportRow(ProbabilityRows)
    \/ ImportFinish

SpecProbability == Init /\ [][NextProbability]_vars

-----------------------------------------------------------------------------
(* Uploads of rows with several defects *)

\* the cells process_import_row checks, in the order of its checks
CheckOrder ==
    <<"Name", "Code", "Probability", "Department", "Unit", "Vertical", "Location",
      "Status", "Address Line1", "City", "Country", "Contacts (Name/Email/Phone)">>

\* for each checked cell a value that fails its check
DefectCell ==
    [c \in {"Name", "Country"} |-> None]
    @@ [c \in {"Code", "City"} |-> Some(<<" ">>)]
    @@ [c \in {"Address Line1"} |-> Some(<< >>)]
    @@ [c \in {"Probability"} |-> Some(<<"x">>)]
    @@ [c \in {"Department", "Unit", "Vertical", "Location", "Status"} |-> Some(<<"Z">>)]
    @@ [c \in {"Contacts (Name/Email/Phone)"} |-> Some(<<"O">>)]

\* RowFullA with the cells of the positions S of CheckOrder made defective
Defective(S) ==
    [c \in {CheckOrder[i] : i \in S} |-> DefectCell[c]] @@ RowFullA

DefectRows ==
    {Defective(S) : S \in {T \in SUBSET DOMAIN CheckOrder : Cardinality(T) <= MaxDefects}}

NextDefects ==
    \/ ImportStart(1)
    \/ ImportRow(DefectRows)
    \/ ImportFinish
    \/ CreateLookup
    \/ DeleteLookup

SpecDefects == Init /\ [][NextDefects]_vars

-----------------------------------------------------------------------------
(* Uploads of rows that differ in their Contacts cell *)

ContactsCells ==
    {None, Some(<<"J", "/", "j">>), Some(<<"/", "k">>), Some(<<"J", "/">>),
     Some(<<" ", "/", " ">>), Some(<<"J", "/", "j", "/", "9", ";", "/", "k">>),
     Some(<<"O">>)}

ContactsRows ==
    {[c \in {"Contacts (Name/Email/Phone)"} |-> p] @@ RowMinA : p \in ContactsCells}

NextContactsCell ==
    \/ ImportStart(MaxRows)
    \/ ImportRow(ContactsRows)
    \/ ImportFinish

SpecContactsCell == Init /\ [][NextContactsCell]_vars

-----------------------------------------------------------------------------
(* Requests served at the same time *)

\* the requests that create an Account: create_account calls and import rows
ConcurrentRequests ==
    <<[kind |-> "create_account", p |-> AccountCreateA],
      [kind |-> "import", row |-> RowMinA],
      [kind |-> "import", row |-> RowB],
      [kind |-> "create_account",
       p |-> [AccountCreateA EXCEPT !.code = Some(<<"B">>),
                                    !.contacts = <<[name |-> Some(<<"J">>),
                                                    email |-> Some(<<"j">>),
                                                    phone |-> None, account_id |-> 1]>>]]>>

\* the code of the Account a session is on the way to insert
SessionCode(s) ==
    IF ConcurrentRequests[s.req].kind = "create_account"
    THEN ConcurrentRequests[s.req].p.code
    ELSE s.v.code

\* the sessions other than r that flushed the INSERT of an Account with the
\* code and have neither committed nor rolled back
pending_inserts(ss, r, code) ==
    {o \in DOMAIN ss : o # r /\ ss[o].pc = "flushed" /\ SessionCode(ss[o]) = code}

\* db.add(account); db.flush(), mutated: accounts.code has no unique index
flush_account_unchecked(d, ss, r, code) == "flushed"

\* db.add(account); db.flush(): the INSERT waits for a session that holds the
\* code in the unique index of accounts.code, and raises when a stored
\* Account, deleted or not, has the code
flush_account(d, ss, r, code) ==
    IF pending_inserts(ss, r, code) # {} THEN "waits"
    ELSE IF ~code_unique(d.accounts, code, 0) THEN "IntegrityError"
    ELSE "flushed"

\* the rows create_account has added when it commits
insert_account(d, p) ==
    [d EXCEPT
       !.accounts = Append(@,
           Account(p.name, p.code, p.probability, p.account_partner,
                   p.delivery_partner, [c \in Categories |-> p[RefField[c]]])),
       !.addresses = Append(@, Address(Len(d.accounts) + 1, p.billing_address))]

\* a session left as it is when its request has ended with the outcome
Ended(s, outcome) == [s EXCEPT !.pc = "done", !.outcome = outcome]

\* a request arrives and runs up to its db.flush(): create_account looks for
\* a non-deleted Account with the code and validates the references; an
\* import row is checked and looks for a non-deleted Account with its Code
SessionCheck(r) ==
    /\ imp.pc = "idle"
    /\ sessions[r].pc = "idle"
    /\ \E q \in DOMAIN ConcurrentRequests :
          LET c == ConcurrentRequests[q]
              s == [sessions[r] EXCEPT !.req = q]
          IN sessions' = [sessions EXCEPT ![r] =
                IF c.kind = "create_account"
                THEN IF active_account_by_code(db, c.p.code) # 0 THEN Ended(s, "400")
                     ELSE IF ~fk_ok(db, c.p) THEN Ended(s, "404")
                     ELSE [s EXCEPT !.pc = "checked", !.inserts = TRUE]
                ELSE LET pv == row_values(db, c.row)
                     IN IF ~pv.ok THEN Ended(s, "failed")
                        ELSE [s EXCEPT !.pc = "checked", !.v = pv.v,
                                       !.inserts = (pv.v.account = 0)]]
    /\ UNCHANGED <<db, imp, response, steps, call>>

\* db.flush() of the new Account; an IntegrityError ends create_account with
\* 500 and the import row as failed, after db.rollback()
SessionFlush(r) ==
    /\ sessions[r].pc = "checked"
    /\ sessions[r].inserts
    /\ LET s == sessions[r]
           f == flush_account(db, sessions, r, SessionCode(s))
       IN /\ f # "waits"
          /\ sessions' = [sessions EXCEPT ![r] =
                IF f = "flushed" THEN [s EXCEPT !.pc = "flushed"]
                ELSE Ended(s, IF ConcurrentRequests[s.req].kind = "create_account"
                              THEN "500" ELSE "failed")]
    /\ UNCHANGED <<db, imp, response, steps, call>>

\* the rest of the handler up to db.commit(): the address and the contacts of
\* the new Account, or the update of the Account found by the row
SessionCommit(r) ==
    /\ \/ sessions[r].pc = "flushed"
       \/ sessions[r].pc = "checked" /\ ~sessions[r].inserts
    /\ steps < MaxSteps
    /\ LET s == sessions[r]
           c == ConcurrentRequests[s.req]
       IN IF c.kind = "create_account"
          THEN \* Contact(**data, account_id=...): data already holds account_id
               IF c.p.contacts # << >>
               THEN /\ sessions' = [sessions EXCEPT ![r] = Ended(s, "500")]
                    /\ UNCHANGED <<db, steps>>
               ELSE /\ sessions' = [sessions EXCEPT ![r] = Ended(s, "201")]
                    /\ db' = insert_account(db, c.p)
                    /\ steps' = steps + 1
          ELSE /\ sessions' = [sessions EXCEPT ![r] =
                     Ended(s, IF s.inserts THEN "created" ELSE "updated")]
               /\ db' = IF s.inserts THEN write_create(db, s.v) ELSE write_update(db, s.v)
               /\ steps' = steps + 1
    /\ UNCHANGED <<imp, response, call>>

\* the response is sent and the session closed
SessionEnd(r) ==
    /\ sessions[r].pc = "done"
    /\ sessions' = [sessions EXCEPT ![r] = NoSession]
    /\ UNCHANGED <<db, imp, response, steps, call>>

NextConcurrent ==
    \/ \E r \in 1..MaxSessions : SessionCheck(r)
    \/ \E r \in 1..MaxSessions : SessionFlush(r)
    \/ \E r \in 1..MaxSessions : SessionCommit(r)
    \/ \E r \in 1..MaxSessions : SessionEnd(r)
    \/ SoftDeleteAccount

SpecConcurrent == Init /\ [][NextConcurrent]_vars

-----------------------------------------------------------------------------
(* parse_contacts called on its own *)

TextChars == {"a", "/", ";", " "}

RECURSIVE TextsOfLen(_)
TextsOfLen(n) ==
    IF n = 0 THEN {<< >>}
    ELSE {Append(t, c) : t \in TextsOfLen(n - 1), c \in TextChars}

\* the str | None arguments of parse_contacts
Texts == {None} \cup {Some(t) : t \in UNION {TextsOfLen(n) : n \in 0..MaxLen}}

InitParse ==
    /\ db = EmptyDb
    /\ imp = Idle
    /\ response = NoResponse
    /\ steps = 0
    /\ sessions = NoSessions
    /\ call \in {[fn |-> "parse_contacts", arg |-> raw, ret |-> None] : raw \in Texts}

\* the call returns (ok) or raises (not ok)
ParseContacts ==
    /\ call.fn = "parse_contacts"
    /\ call.ret = None
    /\ call' = [call EXCEPT !.ret = Some(parse_contacts(call.arg))]
    /\ UNCHANGED <<db, imp, response, steps, sessions>>

NextParse == ParseContacts

SpecParse == InitParse /\ [][NextParse]_vars

-----------------------------------------------------------------------------
(* Properties *)

\* a row has been handled in the import in progress: imp.row is the row,
\* imp.before is storage before it, db is storage after it
HandledRow == imp.pc = "rows" /\ imp.outcomes # << >>

LastOutcome == imp.outcomes[Len(imp.outcomes)]

LastError == imp.summary.errors[Len(imp.summary.errors)].error

RowCell(col) == null_if_empty(RowGet(imp.row, col))

\* the row handled last passes every check of process_import_row
RowValid == row_values(imp.before, imp.row).ok

\* ids of the non-deleted accounts of d with this code
ActiveWithCode(d, code) ==
    {i \in DOMAIN d.accounts : d.accounts[i].code = code /\ ~d.accounts[i].is_deleted}

\* ids of all stored accounts of d with this code
StoredWithCode(d, code) == {i \in DOMAIN d.accounts : d.accounts[i].code = code}

ContactsOf(d, id) == SelectSeq(d.contacts, LAMBDA c : c.account_id = id)

ContactIdsOf(d, id) == {ContactsOf(d, id)[i].id : i \in DOMAIN ContactsOf(d, id)}

AddressesOf(d, id) == {i \in DOMAIN d.addresses : d.addresses[i].account_id = id}

ProjectsOf(d, id) == {i \in DOMAIN d.projects : d.projects[i].account_id = id}

\* C1: a valid row whose Code is that of a non-deleted Account is answered
\* 'updated', and the number of stored Accounts is what it was before the row.
C1_UpdatedForExistingCode ==
    (HandledRow /\ RowValid /\ ActiveWithCode(imp.before, RowCell("Code")) # {})
        => /\ LastOutcome = "updated"
           /\ Len(db.accounts) = Len(imp.before.accounts)

C1_Witness ==
    /\ HandledRow
    /\ RowValid
    /\ ActiveWithCode(imp.before, RowCell("Code")) # {}
    /\ LastOutcome = "updated"
    /\ imp.row = RowFullA

\* C2: a valid row whose Code is that of no non-deleted Account is committed
\* as 'created', a soft-deleted Account carrying the Code or not, and then
\* exactly one non-deleted Account has the Code.
C2_CreatedForNovelCode ==
    (HandledRow /\ RowValid /\ ActiveWithCode(imp.before, RowCell("Code")) = {})
        => /\ LastOutcome = "created"
           /\ Cardinality(ActiveWithCode(db, RowCell("Code"))) = 1

\* C2, where no stored Account at all carries the Code
C2_CreatedForUnusedCode ==
    (HandledRow /\ RowValid /\ StoredWithCode(imp.before, RowCell("Code")) = {})
        => /\ LastOutcome = "created"
           /\ Cardinality(ActiveWithCode(db, RowCell("Code"))) = 1

\* a row was created for a Code that no stored Account carried
C2_Witness ==
    /\ HandledRow
    /\ RowValid
    /\ StoredWithCode(imp.before, RowCell("Code")) = {}
    /\ imp.before.accounts # << >>
    /\ LastOutcome = "created"

\* the Probability of the row handled last, as stored
RowProbability ==
    IF RowCell("Probability") = None THEN None
    ELSE Some(IntOf(Val(RowCell("Probability"))))

\* ref is what the row gives for the lookup category c
RowRef(ref, c) ==
    IF RowCell(c) = None THEN ref = None
    ELSE /\ ref # None
         /\ Val(ref) \in DOMAIN db.lookups[c]
         /\ db.lookups[c][Val(ref)].name = RowCell(c)
         /\ ~db.lookups[c][Val(ref)].is_deleted

\* C3: after a row answered 'updated', every mutable Account column and every
\* Address column holds the value of the row; a blank cell is stored as None.
C3_UpdateOverwritesEveryField ==
    (HandledRow /\ LastOutcome = "updated")
        => /\ ActiveWithCode(imp.before, RowCell("Code")) # {}
           /\ \A id \in ActiveWithCode(imp.before, RowCell("Code")) :
                /\ db.accounts[id].name = RowCell("Name")
                /\ db.accounts[id].probability = RowProbability
                /\ db.accounts[id].account_partner = RowCell("Account Partner")
                /\ db.accounts[id].delivery_partner = RowCell("Delivery Partner")
                /\ \A c \in Categories : RowRef(db.accounts[id][RefField[c]], c)
                /\ Cardinality(AddressesOf(db, id)) = 1
                /\ \A i \in AddressesOf(db, id) :
                     /\ db.addresses[i].addressLine1 = RowCell("Address Line1")
                     /\ db.addresses[i].addressLine2 = RowCell("Address Line2")
                     /\ db.addresses[i].city = RowCell("City")
                     /\ db.addresses[i].state = RowCell("State")
                     /\ db.addresses[i].zip = RowCell("Zip")
                     /\ db.addresses[i].countryCode = RowCell("Country")

\* a row with blank optional cells has updated an account that had values there
C3_Witness ==
    /\ HandledRow
    /\ LastOutcome = "updated"
    /\ imp.row = RowMinA
    /\ \E id \in ActiveWithCode(imp.before, RowCell("Code")) :
         /\ imp.before.accounts[id].probability # None
         /\ imp.before.accounts[id].department_id # None
         /\ db.accounts[id].probability = None
         /\ db.accounts[id].department_id = None
         /\ \E i \in AddressesOf(imp.before, id) : imp.before.addresses[i].zip # None

ContactFields(c) == [name |-> c.name, email |-> c.email, phone |-> c.phone]

\* C4: after a row answered 'updated', the contacts of the account are the
\* contacts parsed from the row, in order, and none of the contacts the
\* account had before the row.
C4_UpdateReplacesContacts ==
    (HandledRow /\ LastOutcome = "updated")
        => \A id \in ActiveWithCode(imp.before, RowCell("Code")) :
             LET now == ContactsOf(db, id)
                 parsed == parse_contacts(RowGet(imp.row, "Contacts (Name/Email/Phone)"))
             IN /\ parsed.ok
                /\ Len(now) = Len(parsed.contacts)
                /\ \A i \in DOMAIN now : ContactFields(now[i]) = parsed.contacts[i]
                /\ ContactIdsOf(db, id) \cap ContactIdsOf(imp.before, id) = {}

\* an account with a soft-deleted contact gets the two contacts of a row
C4_Witness ==
    /\ HandledRow
    /\ LastOutcome = "updated"
    /\ imp.row = RowFullA
    /\ \E id \in ActiveWithCode(imp.before, RowCell("Code")) :
         /\ \E i \in DOMAIN ContactsOf(imp.before, id) :
              ContactsOf(imp.before, id)[i].is_deleted
         /\ Len(ContactsOf(db, id)) = 2
         /\ ContactsOf(db, id)[2].phone = None

\* C5: after a row that failed, accounts, addresses and contacts are what they
\* were before the row.
C5_FailedRowLeavesStorage ==
    (HandledRow /\ LastOutcome = "failed")
        => /\ db.accounts = imp.before.accounts
           /\ db.addresses = imp.before.addresses
           /\ db.contacts = imp.before.contacts

\* a row was refused by storage: its Code is that of a soft-deleted Account
C5_Witness ==
    /\ HandledRow
    /\ LastOutcome = "failed"
    /\ LastError.kind = "IntegrityError"
    /\ ActiveWithCode(db, RowCell("Code")) = {}
    /\ StoredWithCode(db, RowCell("Code")) # {}
    /\ db.contacts # << >>

\* positions in the upload of the rows that failed, in order
FailedPositions(outcomes) ==
    SelectSeq([i \in DOMAIN outcomes |-> i], LAMBDA i : outcomes[i] = "failed")

\* C6: a failing row does not end the batch (every row read so far has an
\* outcome), and storage and the outcomes of the other rows are those of the
\* upload with the failing rows left out.
C6_BatchIsolation ==
    imp.pc = "rows"
        => /\ Len(imp.outcomes) = imp.idx
           /\ db = imp.ref
           /\ SelectSeq(imp.outcomes, LAMBDA o : o # "failed") = imp.ref_outcomes

\* a row succeeded after a row of the same upload failed
C6_Witness ==
    /\ imp.pc = "rows"
    /\ imp.idx = 2
    /\ imp.outcomes[1] = "failed"
    /\ imp.outcomes[2] = "created"

\* C7: the summary after idx rows has processed = created + updated,
\* processed + failed = idx (n at the return), one error per failing row, in
\* file order, numbered by the data position of the row plus 1.
C7_SummaryCounts ==
    /\ imp.pc = "rows"
         => /\ imp.summary.processed = imp.summary.created + imp.summary.updated
            /\ imp.summary.processed + imp.summary.failed = Len(imp.outcomes)
            /\ imp.idx <= imp.n
            /\ Len(imp.summary.errors) = imp.summary.failed
            /\ Len(FailedPositions(imp.outcomes)) = imp.summary.failed
            /\ \A k \in DOMAIN imp.summary.errors :
                 imp.summary.errors[k].row = FailedPositions(imp.outcomes)[k] + 1
    /\ response.status = 200
         => /\ response.body.processed = response.body.created + response.body.updated
            /\ Len(response.body.errors) = response.body.failed
            /\ response.body.processed + response.body.failed >= 1
            /\ \A k \in DOMAIN response.body.errors :
                 response.body.errors[k].row >= k + 1

\* the summary of an upload of two rows, the first of which failed
C7_Witness ==
    /\ imp.pc = "rows"
    /\ imp.idx = imp.n
    /\ imp.n = 2
    /\ imp.summary.failed = 1
    /\ imp.summary.created = 1
    /\ imp.summary.errors[1].row = 2

\* the uploads the claim names: empty content, another extension, no data row
Rejected(file) ==
    \/ file.content_empty
    \/ file.filename_lower \notin {"csv", "xlsx"}
    \/ file.nrows = 0

\* C8: an upload with empty content, an extension other than csv/xlsx or no
\* data row is answered 400; no row is handled and storage is unchanged.
C8_BadUploadRejected ==
    [][\A file \in Files(MaxRows) :
          (PossibleFile(file) /\ Rejected(file) /\ ImportStartFile(file))
              => /\ response'.status = 400
                 /\ imp'.pc = "idle"
                 /\ db' = db]_vars

C8_Witness ==
    /\ response.status = 400
    /\ response.body = "No data found in file"
    /\ imp.pc = "idle"
    /\ db.accounts # << >>

\* C9: of a soft-deleted Account, the Address, the Contacts and the Projects
\* are soft-deleted, and no read endpoint returns any of them.
C9_SoftDeleteCascade ==
    \A id \in DOMAIN db.accounts :
        db.accounts[id].is_deleted
            => /\ \A i \in AddressesOf(db, id) : db.addresses[i].is_deleted
               /\ \A i \in DOMAIN ContactsOf(db, id) : ContactsOf(db, id)[i].is_deleted
               /\ \A i \in ProjectsOf(db, id) : db.projects[i].is_deleted
               /\ get_account_by_id(db, id) = {}
               /\ \A a \in get_all_accounts(db) :
                    /\ a.id # id
                    /\ a.billing_address \cap AddressesOf(db, id) = {}
                    /\ a.contacts \cap ContactIdsOf(db, id) = {}
                    /\ a.projects \cap ProjectsOf(db, id) = {}
               /\ \A cid \in ContactIdsOf(db, id) :
                    cid \notin get_all_contacts(db) /\ get_contact_by_id(db, cid) = {}
               /\ \A pid \in ProjectsOf(db, id) :
                    pid \notin get_all_projects(db) /\ get_project_by_id(db, pid) = {}

\* a soft-deleted account with a contact and a project, and a later account
C9_Witness ==
    /\ Len(db.accounts) = 2
    /\ db.accounts[1].is_deleted
    /\ ~db.accounts[2].is_deleted
    /\ ContactsOf(db, 1) # << >>
    /\ ProjectsOf(db, 1) # {}

\* C10: no two non-deleted Accounts have the same code.
C10_ActiveCodesUnique ==
    \A i \in DOMAIN db.accounts : \A j \in DOMAIN db.accounts :
        (i # j /\ ~db.accounts[i].is_deleted /\ ~db.accounts[j].is_deleted)
            => db.accounts[i].code # db.accounts[j].code

\* two non-deleted accounts, one created by a request and one by an import
C10_Witness ==
    /\ Len(db.accounts) = 2
    /\ ~db.accounts[1].is_deleted
    /\ ~db.accounts[2].is_deleted
    /\ db.accounts[1].code = Some(<<"A">>)
    /\ db.accounts[2].code = Some(<<"B">>)
    /\ db.contacts # << >>

ActiveLookups(d, m) == {i \in DOMAIN d.lookups[m] : ~d.lookups[m][i].is_deleted}

\* C11: in every lookup category, no two non-deleted entries have the same
\* name, whatever creates, renames and soft deletes were made.
C11_ActiveLookupNamesUnique ==
    \A m \in Categories : \A i \in ActiveLookups(db, m) : \A j \in ActiveLookups(db, m) :
        i # j => db.lookups[m][i].name # db.lookups[m][j].name

\* a category with a soft-deleted entry and two non-deleted entries, one of
\* them with the empty name
C11_Witness ==
    \E m \in LookupModels :
        /\ Len(db.lookups[m]) = 3
        /\ db.lookups[m][1].is_deleted
        /\ ActiveLookups(db, m) = {2, 3}
        /\ db.lookups[m][1].name = Some(<<"D">>)
        /\ db.lookups[m][2].name = Some(<<"E">>)
        /\ db.lookups[m][3].name = Some(<< >>)

\* the stored records of d are those of e, followed by one new record
OneMore(d, e) == Len(d) = Len(e) + 1 /\ SubSeq(d, 1, Len(e)) = e

\* C12: a create_account request whose code only soft-deleted Accounts carry,
\* and a lookup create request whose name only soft-deleted entries of the
\* category carry, is answered 201 and stores the new record beside the
\* soft-deleted one.
C12_DeletedExemptFromUniqueness ==
    /\ (/\ StoredWithCode(db, AccountCreateA.code) # {}
        /\ ActiveWithCode(db, AccountCreateA.code) = {})
           => /\ create_account(db, AccountCreateA).status = 201
              /\ OneMore(create_account(db, AccountCreateA).db.accounts, db.accounts)
    /\ \A q \in LookupRequests :
         (/\ \E i \in DOMAIN db.lookups[q[1]] : db.lookups[q[1]][i].name = q[2]
          /\ \A i \in ActiveLookups(db, q[1]) : db.lookups[q[1]][i].name # q[2])
            => /\ create_lookup(db, q[1], q[2]).status = 201
               /\ OneMore(create_lookup(db, q[1], q[2]).db.lookups[q[1]],
                          db.lookups[q[1]])

\* C13: every non-deleted Contact has the account_id of a stored, non-deleted
\* Account.
C13_ContactHasActiveAccount ==
    \A i \in DOMAIN db.contacts :
        ~db.contacts[i].is_deleted => active_account(db, db.contacts[i].account_id)

\* a contact that an import created on the account of code A now belongs to
\* the account of code B: update_contact moved it
C13_Witness ==
    /\ Len(db.accounts) = 2
    /\ db.accounts[1].code = Some(<<"A">>)
    /\ db.accounts[2].code = Some(<<"B">>)
    /\ \E i \in DOMAIN db.contacts :
         /\ db.contacts[i].name = Some(<<"J">>)
         /\ db.contacts[i].account_id = 2
         /\ ~db.contacts[i].is_deleted

StoredContactIds(d) == {d.contacts[i].id : i \in DOMAIN d.contacts}

\* C14: no step removes a stored record: the stored Accounts, Addresses,
\* Contacts, Projects and lookup entries of a state are all stored in the
\* next state, and a deleted record is one with is_deleted, deleted_at and
\* deleted_by set.
C14_NoPhysicalRemoval ==
    [][/\ Len(db'.accounts) >= Len(db.accounts)
       /\ Len(db'.addresses) >= Len(db.addresses)
       /\ Len(db'.projects) >= Len(db.projects)
       /\ \A m \in Categories : Len(db'.lookups[m]) >= Len(db.lookups[m])
       /\ StoredContactIds(db) \subseteq StoredContactIds(db')
       /\ \A i \in DOMAIN db'.contacts :
            db'.contacts[i].is_deleted
                => db'.contacts[i].deleted_at # None /\ db'.contacts[i].deleted_by # None]_vars

\* the import of an exported file has handled its last row
Reimported == imp.pc = "rows" /\ call.fn = "export_accounts" /\ imp.idx = imp.n

\* name, email and phone of the non-deleted contacts of an account, in order
ContactList(d, id) ==
    [i \in DOMAIN SelectSeq(ContactsOf(d, id), LAMBDA c : ~c.is_deleted) |->
        ContactFields(SelectSeq(ContactsOf(d, id), LAMBDA c : ~c.is_deleted)[i])]

\* C15: the import of the rows that the export of the non-deleted Accounts
\* produced answers 'updated' for every row, and leaves every Account field,
\* every Address field and every contact list (name, email, phone, absent
\* phones included, order, count) as it was before the export.
C15_RoundTrip ==
    Reimported
        => /\ \A k \in DOMAIN imp.outcomes : imp.outcomes[k] = "updated"
           /\ imp.summary.failed = 0
           /\ db.accounts = call.arg.db.accounts
           /\ db.addresses = call.arg.db.addresses
           /\ \A id \in DOMAIN db.accounts :
                ~db.accounts[id].is_deleted
                    => ContactList(db, id) = ContactList(call.arg.db, id)

\* the exported accounts have a code, no contacts and no soft-deleted lookup
WithoutContacts(d) ==
    \A id \in DOMAIN d.accounts :
        ~d.accounts[id].is_deleted
            => /\ ~Falsy(d.accounts[id].code)
               /\ ContactsOf(d, id) = << >>
               /\ \A c \in Categories :
                    d.accounts[id][RefField[c]] # None
                        => active_lookup(d, c, Val(d.accounts[id][RefField[c]]))

\* C15, for exported accounts without contacts: every row is answered
\* 'updated' and storage is what it was before the export.
C15_RoundTripWithoutContacts ==
    (Reimported /\ WithoutContacts(call.arg.db))
        => /\ \A k \in DOMAIN imp.outcomes : imp.outcomes[k] = "updated"
           /\ imp.summary.failed = 0
           /\ db = call.arg.db

\* an account with a Probability and no contacts was exported and imported
C15_Witness ==
    /\ Reimported
    /\ WithoutContacts(call.arg.db)
    /\ imp.n = 1
    /\ imp.outcomes = <<"updated">>
    /\ RowGet(imp.row, "Probability") # None
    /\ RowGet(imp.row, "Probability") # Some(<< >>)

Max(S) == CHOOSE x \in S : \A y \in S : x >= y

\* positions just outside the pieces of s between the separators sep
Cuts(s, sep) == {0, Len(s) + 1} \cup {i \in 1..Len(s) : s[i] = sep}

NthCut(s, sep, n) ==
    CHOOSE c \in Cuts(s, sep) : Cardinality({x \in Cuts(s, sep) : x < c}) = n - 1

Pieces(s, sep) ==
    [k \in 1..(Cardinality(Cuts(s, sep)) - 1) |->
        SubSeq(s, NthCut(s, sep, k) + 1, NthCut(s, sep, k + 1) - 1)]

Trimmed(s) ==
    IF \A i \in 1..Len(s) : s[i] = " " THEN << >>
    ELSE SubSeq(s, Min({i \in 1..Len(s) : s[i] # " "}),
                   Max({i \in 1..Len(s) : s[i] # " "}))

\* the non-blank entries of a text, trimmed, in input order
Entries(text) ==
    SelectSeq([k \in DOMAIN Pieces(text, ";") |-> Trimmed(Pieces(text, ";")[k])],
              LAMBDA e : e # << >>)

Segments(entry) ==
    [k \in DOMAIN Pieces(entry, "/") |-> Trimmed(Pieces(entry, "/")[k])]

\* what the contacts cell asks for: entries es, result r
ParsedAsAsked(es, r) ==
    IF \E i \in DOMAIN es : Len(Segments(es[i])) < 2
    THEN /\ ~r.ok
         /\ r.contacts = << >>
         /\ r.error.kind = "Invalid contact format"
         /\ r.error.arg # None
         /\ \E i \in DOMAIN es : /\ Len(Segments(es[i])) < 2
                                 /\ Val(r.error.arg) = es[i]
    ELSE /\ r.ok
         /\ Len(r.contacts) = Len(es)
         /\ \A i \in DOMAIN es :
                /\ r.contacts[i].name = Some(Segments(es[i])[1])
                /\ r.contacts[i].email = Some(Segments(es[i])[2])
                /\ r.contacts[i].phone =
                       IF Len(Segments(es[i])) = 2 THEN None
                       ELSE Some(Segments(es[i])[3])

\* C16: parse_contacts gives one contact per non-blank ';'-separated entry, in
\* input order, with name, email and optional phone taken from the entry's
\* '/'-separated segments (no phone when there are only 2 segments); an
\* absent or blank text gives the empty list; when an entry has fewer than 2
\* segments the call fails naming that entry and gives no contacts at all.
C16_ParseContacts ==
    (call.fn = "parse_contacts" /\ call.ret # None)
        => IF call.arg = None
           THEN Val(call.ret).ok /\ Val(call.ret).contacts = << >>
           ELSE ParsedAsAsked(Entries(Val(call.arg)), Val(call.ret))

\* two contacts were parsed, the first with a phone and the second without
C16_Witness ==
    /\ call.fn = "parse_contacts"
    /\ call.ret # None
    /\ Val(call.ret).ok
    /\ Len(Val(call.ret).contacts) = 2
    /\ Val(call.ret).contacts[1].phone = Some(<<"a">>)
    /\ Val(call.ret).contacts[2].phone = None

\* the non-deleted entries of category m named n
ActiveNamed(d, m, n) ==
    {i \in DOMAIN d.lookups[m] :
        ~d.lookups[m][i].is_deleted /\ d.lookups[m][i].name = Some(n)}

ResolvedAsAsked(d, a, r) ==
    IF Falsy(a.name) THEN r.ok /\ r.id = None
    ELSE IF ActiveNamed(d, a.model, Trimmed(Val(a.name))) # {}
    THEN /\ r.ok
         /\ r.id # None
         /\ Val(r.id) \in ActiveNamed(d, a.model, Trimmed(Val(a.name)))
    ELSE /\ ~r.ok
         /\ r.id = None
         /\ r.error = Error("does not exist", a.label, a.name)

\* C17: resolve_lookup_by_name gives the absent value for an absent (None or
\* empty) name, the id of the non-deleted entry of the category whose name is
\* the trimmed given name, and fails with the category label and the given
\* name when no non-deleted entry has that name, also when a soft-deleted
\* entry has it.
C17_ResolveLookupByName ==
    call.fn = "resolve_lookup_by_name" => ResolvedAsAsked(db, call.arg, call.ret)

\* the only Department named D is soft-deleted and resolving ' D ' failed
C17_Witness ==
    /\ call.fn = "resolve_lookup_by_name"
    /\ call.arg.model = "Department"
    /\ call.arg.name = Some(<<" ", "D", " ">>)
    /\ \E i \in DOMAIN db.lookups["Department"] :
            /\ db.lookups["Department"][i].name = Some(<<"D">>)
            /\ db.lookups["Department"][i].is_deleted
    /\ ~call.ret.ok
    /\ call.ret.error.arg = call.arg.name

RequiredAddressCells == <<"Address Line1", "City", "Country">>

\* positions of the required address cells that the row leaves absent or blank
BlankAddressCells == {i \in DOMAIN RequiredAddressCells : RowCell(RequiredAddressCells[i]) = None}

\* the row handled last passes the checks that come before the address checks
RowValidBeforeAddress ==
    /\ RowCell("Name") # None
    /\ RowCell("Code") # None
    /\ RowCell("Probability") # None => IsIntLiteral(Val(RowCell("Probability")))
    /\ \A c \in Categories :
          RowCell(c) # None => ActiveNamed(imp.before, c, Val(RowCell(c))) # {}

\* C18: a row whose Address Line1, City or Country is absent or blank fails
\* with '<field> is required' for the first such field, whether or not its
\* Code is that of a non-deleted Account, and storage (the Account, its
\* Address and its Contacts on the update path) is left as it was.
C18_AddressRequiredOnUpdate ==
    (HandledRow /\ RowValidBeforeAddress /\ BlankAddressCells # {})
        => /\ LastOutcome = "failed"
           /\ LastError =
                Error("is required", RequiredAddressCells[Min(BlankAddressCells)], None)
           /\ db = imp.before

\* a row with a blank City was handled for the Code of a non-deleted Account
\* that has contacts
C18_Witness ==
    /\ HandledRow
    /\ RowValidBeforeAddress
    /\ BlankAddressCells # {}
    /\ LastOutcome = "failed"
    /\ ActiveWithCode(imp.before, RowCell("Code")) # {}
    /\ \A id \in ActiveWithCode(imp.before, RowCell("Code")) :
          ContactsOf(db, id) # << >>

\* the Probability cells that hold an integer, and the integer
IntegerCells ==
    (<<"0">> :> 0) @@ (<<"7">> :> 7) @@ (<<"-", "3">> :> (0 - 3))
    @@ (<<" ", "+", "4", " ">> :> 4) @@ (<<"1", "_", "0">> :> 10)

\* the Probability cells that are neither blank nor an integer
NonIntegerCells == {<<"x">>, <<"7", ".", "0">>, <<"-">>}

BlankCells == {<< >>, <<" ">>}

\* every non-deleted Account with the Code of the row has probability p
StoredProbability(p) ==
    /\ ActiveWithCode(db, RowCell("Code")) # {}
    /\ \A id \in ActiveWithCode(db, RowCell("Code")) : db.accounts[id].probability = p

ProbabilityAsAsked(cell) ==
    IF cell = None \/ Val(cell) \in BlankCells
    THEN LastOutcome # "failed" /\ StoredProbability(None)
    ELSE IF Val(cell) \in DOMAIN IntegerCells
    THEN LastOutcome # "failed" /\ StoredProbability(Some(IntegerCells[Val(cell)]))
    ELSE /\ Val(cell) \in NonIntegerCells
         /\ LastOutcome = "failed"
         /\ db = imp.before

\* C19: after a row that succeeds the stored probability is None, not 0,
\* when the Probability cell is absent or blank, and the integer of the cell
\* (0 included) when it holds one; a row whose cell is neither blank nor an
\* integer fails and stores nothing.
C19_ProbabilityStored ==
    HandledRow => ProbabilityAsAsked(RowGet(imp.row, "Probability"))

\* an Account stored with probability 0 was updated by a row with a blank
\* Probability
C19_Witness ==
    /\ HandledRow
    /\ RowGet(imp.row, "Probability") = Some(<<" ">>)
    /\ LastOutcome = "updated"
    /\ \E id \in ActiveWithCode(imp.before, RowCell("Code")) :
          /\ imp.before.accounts[id].probability = Some(0)
          /\ db.accounts[id].probability = None

\* the request is answered 404 and storage stays d
NotFound(d, r) == r.status = 404 /\ r.db = d

\* requests that address an Account, Contact, Project or lookup entry that
\* is not stored or is soft-deleted
MissingAddressedIs404(d) ==
    /\ \A id \in Ids(d.accounts) :
          ~active_account(d, id)
              => /\ get_account_by_id(d, id) = {}
                 /\ NotFound(d, soft_delete_account(d, id))
                 /\ \A u \in AccountUpdates : NotFound(d, update_account(d, id, u))
    /\ \A cid \in 1..d.next_contact :
          active_contact(d, cid) = 0
              => /\ get_contact_by_id(d, cid) = {}
                 /\ NotFound(d, delete_contact(d, cid))
                 /\ \A q \in ContactUpdates : NotFound(d, update_contact(d, cid, q))
    /\ \A pid \in Ids(d.projects) :
          ~active_project(d, pid)
              => /\ get_project_by_id(d, pid) = {}
                 /\ NotFound(d, soft_delete_project(d, pid))
                 /\ \A u \in ProjectUpdates :
                       NotFound(d, update_project_details(d, pid, u))
    /\ \A m \in LookupModels : \A id \in Ids(d.lookups[m]) :
          ~active_lookup(d, m, id)
              => /\ NotFound(d, delete_lookup(d, m, id))
                 /\ \A name \in LookupNames : NotFound(d, update_lookup(d, m, id, name))

\* requests for a Contact or an Account whose payload refers to an Account
\* or a lookup entry that is not stored or is soft-deleted
MissingContactOrAccountReferenceIs404(d) ==
    /\ \A q \in ContactCreates :
          ~active_account(d, q.account_id) => NotFound(d, create_contact(d, q))
    /\ \A cid \in 1..d.next_contact : \A q \in ContactUpdates :
          (/\ active_contact(d, cid) # 0
           /\ q.account_id # 0
           /\ ~active_account(d, q.account_id))
              => NotFound(d, update_contact(d, cid, q))
    /\ \A a \in AccountCreates :
          (active_account_by_code(d, a.code) = 0 /\ ~fk_ok(d, a))
              => NotFound(d, create_account(d, a))

\* requests for a Project whose payload refers to an Account that is not
\* stored or is soft-deleted
MissingProjectAccountIs404(d) ==
    \A q \in ProjectCreates :
        ~active_account(d, q.account_id) => NotFound(d, create_project(d, q))

\* C20: every direct request that refers to an entity that is not stored or
\* is soft-deleted, as the addressed id or as a reference of its payload
\* (account_id of a Contact or Project, lookup ids of an Account), is answered
\* 404 and changes nothing stored.
C20_MissingReferenceIs404 ==
    /\ MissingAddressedIs404(db)
    /\ MissingContactOrAccountReferenceIs404(db)
    /\ MissingProjectAccountIs404(db)

\* C20 without the account_id of a Project
C20_MissingReferenceExceptProjectAccount ==
    /\ MissingAddressedIs404(db)
    /\ MissingContactOrAccountReferenceIs404(db)

\* a soft-deleted Account with a soft-deleted Contact and a soft-deleted
\* Department are stored, and an Account request refers to that Department
C20_Witness ==
    /\ \E id \in DOMAIN db.accounts :
          /\ db.accounts[id].is_deleted
          /\ ContactsOf(db, id) # << >>
    /\ \E a \in AccountCreates :
          active_account_by_code(db, a.code) = 0 /\ ~fk_ok(db, a)
    /\ \E i \in DOMAIN db.lookups["Department"] : db.lookups["Department"][i].is_deleted

\* the request is answered 400 and storage stays d
BadRequest(d, r) == r.status = 400 /\ r.db = d

\* a non-deleted Account other than self has the code
CodeTaken(d, code, self) ==
    \E i \in DOMAIN d.accounts :
        i # self /\ ~d.accounts[i].is_deleted /\ d.accounts[i].code = code

\* a non-deleted entry of category m other than self has the name
NameTaken(d, m, name, self) ==
    \E i \in DOMAIN d.lookups[m] :
        i # self /\ ~d.lookups[m][i].is_deleted /\ d.lookups[m][i].name = name

\* create and rename requests whose key, one of keys, is that of another
\* non-deleted record of the same kind
DuplicateKeyIs400(d, codes, names) ==
    /\ \A a \in AccountCreates :
          (a.code \in codes /\ CodeTaken(d, a.code, 0)) => BadRequest(d, create_account(d, a))
    /\ \A id \in DOMAIN d.accounts : \A code \in codes :
          (active_account(d, id) /\ CodeTaken(d, code, id))
              => BadRequest(d, update_account(d, id, CodeUpdate(code)))
    /\ \A m \in LookupModels : \A name \in names :
          NameTaken(d, m, name, 0) => BadRequest(d, create_lookup(d, m, name))
    /\ \A m \in LookupModels : \A id \in DOMAIN d.lookups[m] : \A name \in names :
          (active_lookup(d, m, id) /\ NameTaken(d, m, name, id))
              => BadRequest(d, update_lookup(d, m, id, name))

\* C21: a create or rename request whose Account code or lookup name is that
\* of another non-deleted record of the same kind is answered 400 and changes
\* nothing stored.
C21_DuplicateKeyIs400 == DuplicateKeyIs400(db, AccountCodes, LookupNames)

\* C21 for the codes and names that are not the empty text
C21_DuplicateNonEmptyKeyIs400 ==
    DuplicateKeyIs400(db, AccountCodes \ {Some(<< >>)}, LookupNames \ {Some(<< >>)})

\* two non-deleted Accounts with the codes A and B and a non-deleted lookup
\* entry named D are stored: renaming either Account to the other's code and
\* creating D again collide
C21_Witness ==
    /\ CodeTaken(db, Some(<<"A">>), 0)
    /\ CodeTaken(db, Some(<<"B">>), 0)
    /\ \E m \in LookupModels : NameTaken(db, m, Some(<<"D">>), 0)
    /\ \E id \in DOMAIN db.accounts :
          update_account(db, id, CodeUpdate(Some(<<"B">>))).status = 400

\* C22: every stored Account, soft-deleted or not, has exactly one Address
\* record, the one keyed by its id.
C22_OneAddressPerAccount ==
    \A id \in DOMAIN db.accounts : Cardinality(AddressesOf(db, id)) = 1

\* an import row updated the one Address of an Account while a second
\* Account with its own Address is stored
C22_Witness ==
    /\ HandledRow
    /\ LastOutcome = "updated"
    /\ db.addresses # imp.before.addresses
    /\ Len(db.addresses) = 2
    /\ \E id \in DOMAIN db.accounts : db.accounts[id].account_partner = Some(<<"P">>)

Cell(row, col) == null_if_empty(RowGet(row, col))

\* the Account id of d, its Address and its Contacts hold the values of row
HoldsRow(d, id, row) ==
    /\ d.accounts[id].name = Cell(row, "Name")
    /\ d.accounts[id].code = Cell(row, "Code")
    /\ d.accounts[id].probability =
          IF Cell(row, "Probability") = None THEN None
          ELSE Some(IntOf(Val(Cell(row, "Probability"))))
    /\ d.accounts[id].account_partner = Cell(row, "Account Partner")
    /\ d.accounts[id].delivery_partner = Cell(row, "Delivery Partner")
    /\ \A c \in Categories :
          IF Cell(row, c) = None THEN d.accounts[id][RefField[c]] = None
          ELSE /\ d.accounts[id][RefField[c]] # None
               /\ Val(d.accounts[id][RefField[c]]) \in ActiveNamed(d, c, Val(Cell(row, c)))
    /\ \A i \in AddressesOf(d, id) :
          /\ d.addresses[i].addressLine1 = Cell(row, "Address Line1")
          /\ d.addresses[i].addressLine2 = Cell(row, "Address Line2")
          /\ d.addresses[i].city = Cell(row, "City")
          /\ d.addresses[i].state = Cell(row, "State")
          /\ d.addresses[i].zip = Cell(row, "Zip")
          /\ d.addresses[i].countryCode = Cell(row, "Country")
    /\ Len(ContactsOf(d, id)) =
          Len(Entries(OrEmpty(RowGet(row, "Contacts (Name/Email/Phone)"))))

\* this step handles a valid row with the Code of the valid row handled just
\* before it in the same upload, a Code that no stored Account had before
SameNovelCodeTwice ==
    /\ HandledRow
    /\ imp'.pc = "rows"
    /\ Len(imp'.outcomes) = Len(imp.outcomes) + 1
    /\ RowValid
    /\ StoredWithCode(imp.before, RowCell("Code")) = {}
    /\ row_values(db, imp'.row).ok
    /\ Cell(imp'.row, "Code") = RowCell("Code")

\* C23: the rows of an upload are handled in file order, each committed
\* before the next is read against storage: of two valid rows in a row that
\* carry the same Code, stored by no Account before, the first is answered
\* 'created', the second 'updated', and afterwards exactly one Account is
\* stored with that Code, holding the values of the second row.
C23_SecondRowSeesFirst ==
    [][SameNovelCodeTwice
          => /\ LastOutcome = "created"
             /\ imp'.outcomes[Len(imp'.outcomes)] = "updated"
             /\ Cardinality(StoredWithCode(db', RowCell("Code"))) = 1
             /\ \A id \in StoredWithCode(db', RowCell("Code")) :
                   /\ ~db'.accounts[id].is_deleted
                   /\ HoldsRow(db', id, imp'.row)]_vars

\* an upload of the rows RowFullA and RowMinA, both with the Code A, into
\* storage without Accounts, has been handled
C23_Witness ==
    /\ imp.pc = "rows"
    /\ imp.outcomes = <<"created", "updated">>
    /\ imp.row = RowMinA
    /\ Len(imp.before.accounts) = 1
    /\ imp.before.accounts[1].name = Cell(RowFullA, "Name")
    /\ Len(ContactsOf(imp.before, 1)) = 2
    /\ Len(db.accounts) = 1
    /\ HoldsRow(db, 1, RowMinA)

\* the first entry of the contacts cell with fewer than 2 segments
FirstBadEntry(es) ==
    es[Min({i \in DOMAIN es : Len(Segments(es[i])) < 2})]

\* the error of the check of cell col on row against storage d, NoError when
\* the check passes
Defect(d, row, col) ==
    IF col \in {"Name", "Code", "Address Line1", "City", "Country"}
    THEN IF Cell(row, col) = None THEN Error("is required", col, None) ELSE NoError
    ELSE IF col = "Probability"
    THEN IF Cell(row, col) # None /\ ~IsIntLiteral(Val(Cell(row, col)))
         THEN Error("invalid literal for int()", col, Cell(row, col))
         ELSE NoError
    ELSE IF col \in Categories
    THEN IF Cell(row, col) # None /\ ActiveNamed(d, col, Val(Cell(row, col))) = {}
         THEN Error("does not exist", col, Cell(row, col))
         ELSE NoError
    ELSE IF \E i \in DOMAIN Entries(OrEmpty(RowGet(row, col))) :
               Len(Segments(Entries(OrEmpty(RowGet(row, col)))[i])) < 2
         THEN Error("Invalid contact format", "Contacts",
                    Some(FirstBadEntry(Entries(OrEmpty(RowGet(row, col))))))
         ELSE NoError

\* positions in CheckOrder of the checks the row fails
Defects(d, row) == {i \in DOMAIN CheckOrder : Defect(d, row, CheckOrder[i]) # NoError}

\* C24: a row with one or several defects fails with the error of the first
\* failing check in the order Name, Code, Probability, Department, Unit,
\* Vertical, Location, Status, Address Line1, City, Country, Contacts, nothing
\* is written, and the summary holds one error entry per failing row.
C24_FirstDefectReported ==
    HandledRow
        => /\ Defects(imp.before, imp.row) # {}
                => /\ LastOutcome = "failed"
                   /\ LastError =
                        Defect(imp.before, imp.row,
                               CheckOrder[Min(Defects(imp.before, imp.row))])
                   /\ db = imp.before
           /\ Len(imp.summary.errors) = Len(FailedPositions(imp.outcomes))

\* a row with an unknown Status and a blank City failed on the Status while
\* its Department is stored
C24_Witness ==
    /\ HandledRow
    /\ Defects(imp.before, imp.row) = {8, 10}
    /\ LastOutcome = "failed"
    /\ LastError = Error("does not exist", "Status", Some(<<"Z">>))

\* update_account(d, id, u) gave r: the fields u does not give and every
\* other Account, Address, Contact and Project are as in d
PatchesAccountOnly(d, id, u, r) ==
    /\ r.db.addresses = d.addresses
    /\ r.db.contacts = d.contacts
    /\ r.db.projects = d.projects
    /\ r.db.lookups = d.lookups
    /\ DOMAIN r.db.accounts = DOMAIN d.accounts
    /\ \A j \in DOMAIN d.accounts :
          \A f \in DOMAIN d.accounts[j] :
              (j # id \/ f \notin u.set) => r.db.accounts[j][f] = d.accounts[j][f]
    /\ r.status # 200 => r.db = d

StaysDeleted(d, e) ==
    /\ \A i \in DOMAIN d.accounts :
          d.accounts[i].is_deleted
              => i \in DOMAIN e.accounts /\ e.accounts[i].is_deleted
    /\ \A i \in DOMAIN d.addresses :
          d.addresses[i].is_deleted
              => /\ i \in DOMAIN e.addresses
                 /\ e.addresses[i].account_id = d.addresses[i].account_id
                 /\ e.addresses[i].is_deleted
    /\ \A i \in DOMAIN d.projects :
          d.projects[i].is_deleted
              => i \in DOMAIN e.projects /\ e.projects[i].is_deleted
    /\ \A m \in Categories : \A i \in DOMAIN d.lookups[m] :
          d.lookups[m][i].is_deleted
              => i \in DOMAIN e.lookups[m] /\ e.lookups[m][i].is_deleted
    /\ \A i \in DOMAIN d.contacts : \A j \in DOMAIN e.contacts :
          (d.contacts[i].is_deleted /\ e.contacts[j].id = d.contacts[i].id)
              => e.contacts[j].is_deleted

\* C26: a soft-deleted Account, Address, Contact, Project or lookup entry is
\* soft-deleted in every later state: no request and no import row sets
\* is_deleted back to false.
C26_SoftDeleteIsPermanent == [][StaysDeleted(db, db')]_vars

\* an import row with the Code of a soft-deleted Account that had a Contact
\* has been handled
C26_Witness ==
    /\ HandledRow
    /\ \E id \in StoredWithCode(imp.before, RowCell("Code")) :
          /\ imp.before.accounts[id].is_deleted
          /\ db.accounts[id].is_deleted
          /\ ContactsOf(db, id) # << >>
          /\ \A i \in DOMAIN ContactsOf(db, id) : ContactsOf(db, id)[i].is_deleted

\* C27: each non-absent lookup reference of a non-deleted Account is the id
\* of a non-deleted entry of its category.
C27_LookupRefsActive ==
    \A id \in DOMAIN db.accounts : \A c \in Categories :
        (~db.accounts[id].is_deleted /\ db.accounts[id][RefField[c]] # None)
            => active_lookup(db, c, Val(db.accounts[id][RefField[c]]))

\* C27, weakened: the entry referred to is stored, soft-deleted or not
C27_LookupRefsStored ==
    \A id \in DOMAIN db.accounts : \A c \in Categories :
        db.accounts[id][RefField[c]] # None
            => Val(db.accounts[id][RefField[c]]) \in DOMAIN db.lookups[c]

\* a non-deleted Account refers to a Department
C27_Witness ==
    \E id \in DOMAIN db.accounts :
        /\ ~db.accounts[id].is_deleted
        /\ db.accounts[id].department_id # None
        /\ Val(db.accounts[id].department_id) \in DOMAIN db.lookups["Department"]

\* the soft-deleted Contacts of the Account id
DeletedContactsOf(d, id) == SelectSeq(ContactsOf(d, id), LAMBDA c : c.is_deleted)

\* the Contacts of the Account id that are not soft-deleted
LiveContactsOf(d, id) == SelectSeq(ContactsOf(d, id), LAMBDA c : ~c.is_deleted)

\* C28: a soft-deleted Contact of a non-deleted Account is not in the
\* contacts returned with the Account by get_account_by_id and
\* get_all_accounts, and not in the Contacts cell the export writes for it.
C28_DeletedContactHidden ==
    \A id \in DOMAIN db.accounts :
        ~db.accounts[id].is_deleted
            => /\ \A a \in get_account_by_id(db, id) \cup get_all_accounts(db) :
                    \A i \in DOMAIN DeletedContactsOf(db, id) :
                        DeletedContactsOf(db, id)[i].id \notin a.contacts
               /\ serialize_contacts(db, id) =
                    serialize_contact_list(LiveContactsOf(db, id))

\* C28 for the contact endpoints: a soft-deleted Contact is returned neither
\* by get_contact_by_id nor by get_all_contacts
C28_DeletedContactHiddenFromContactReads ==
    \A i \in DOMAIN db.contacts :
        db.contacts[i].is_deleted
            => /\ get_contact_by_id(db, db.contacts[i].id) = {}
               /\ db.contacts[i].id \notin get_all_contacts(db)

\* a non-deleted Account has a soft-deleted Contact and a Contact that is not
C28_Witness ==
    \E id \in DOMAIN db.accounts :
        /\ ~db.accounts[id].is_deleted
        /\ DeletedContactsOf(db, id) # << >>
        /\ LiveContactsOf(db, id) # << >>

\* C29: every Contact stored by a row that succeeds has a name and an email
\* that are not empty.
C29_ImportedContactsNamed ==
    (HandledRow /\ LastOutcome # "failed")
        => \A id \in ActiveWithCode(db, RowCell("Code")) :
              \A i \in DOMAIN ContactsOf(db, id) :
                  /\ ~Falsy(ContactsOf(db, id)[i].name)
                  /\ ~Falsy(ContactsOf(db, id)[i].email)

\* C29, weakened: name and email of a Contact stored by a row that succeeds
\* are texts, empty or not, never None
C29_ImportedContactsNotNone ==
    (HandledRow /\ LastOutcome # "failed")
        => \A id \in ActiveWithCode(db, RowCell("Code")) :
              \A i \in DOMAIN ContactsOf(db, id) :
                  /\ ContactsOf(db, id)[i].name # None
                  /\ ContactsOf(db, id)[i].email # None

\* a row whose Contacts cell is 'J/j/9;/k' succeeded and stored two Contacts
C29_Witness ==
    /\ HandledRow
    /\ LastOutcome # "failed"
    /\ RowGet(imp.row, "Contacts (Name/Email/Phone)")
          = Some(<<"J", "/", "j", "/", "9", ";", "/", "k">>)
    /\ \A id \in ActiveWithCode(db, RowCell("Code")) : Len(ContactsOf(db, id)) = 2

\* the session ended with its Account stored
Committed(s) == s.pc = "done" /\ s.outcome \in {"201", "created"}

\* the session ended as an error: 500 of create_account, a failed import row
Errored(s) == s.pc = "done" /\ s.outcome \in {"500", "failed"}

\* r and o are two sessions that both found no non-deleted Account with the
\* same code and went on to insert one
Race(ss, r, o) ==
    /\ r # o
    /\ ss[r].pc # "idle" /\ ss[r].inserts
    /\ ss[o].pc # "idle" /\ ss[o].inserts
    /\ SessionCode(ss[r]) = SessionCode(ss[o])

OneCreatorCommits(d, ss) ==
    /\ \A i, j \in DOMAIN d.accounts :
          /\ i # j
          /\ ~d.accounts[i].is_deleted
          /\ ~d.accounts[j].is_deleted
          => d.accounts[i].code # d.accounts[j].code
    /\ \A r, o \in DOMAIN ss :
          Race(ss, r, o) =>
             /\ ~(Committed(ss[r]) /\ Committed(ss[o]))
             /\ Committed(ss[r]) /\ ss[o].pc = "done" => Errored(ss[o])

\* a session that ends as an error in this step leaves storage as it was
ErrorStoresNothing ==
    \A r \in DOMAIN sessions :
        sessions[r].pc # "done" /\ Errored(sessions'[r]) => db' = db

\* C30: when two requests that create an Account with the same code
\* (create_account calls or import rows of different requests) both pass
\* their existence check before either commits, at most one of them commits,
\* the other ends as an error (500 or a failed row) that stores nothing, and
\* no state holds two non-deleted Accounts with the same code
C30_OneCreatorCommits ==
    [][OneCreatorCommits(db', sessions') /\ ErrorStoresNothing]_vars

\* a create_account call and an import row raced for code A with no Account
\* stored before: one of them committed, the other ended as an error
C30_Witness ==
    /\ Race(sessions, 1, 2)
    /\ {sessions[1].req, sessions[2].req} = {1, 2}
    /\ \E r \in DOMAIN sessions :
          Committed(sessions[r]) /\ Errored(sessions[3 - r])
    /\ Len(db.accounts) = 1
    /\ ~db.accounts[1].is_deleted
    /\ Len(db.addresses) = 1

====
